---- MODULE Spec2Model ----
(***************************************************************************)
(* A model of the partfs borrow registry (src/src/wrappers.rs) over a      *)
(* byte-addressed backing disk (src/src/memdisk.rs, src/src/lib.rs).       *)
(*                                                                         *)
(* Spec      the registry used from one thread: subdisk,                   *)
(*           fragmented_subdisk and the destruction of views, each call    *)
(*           one atomic action.                                            *)
(* SpecIO    the registry used directly as a Disk, next to subdisk         *)
(*           issuance and destruction.                                     *)
(* SpecConc  two threads inside DiskWrapper::subdisk, one action per lock  *)
(*           acquisition of the code.                                      *)
(***************************************************************************)
EXTENDS Integers, Sequences, FiniteSets

\* ------------------------------------------------------------------ bounds
\* Size in bytes of the backing disk.
DiskSize == 3
\* Number of views that may be alive at once.
MaxViews == 2
\* Longest parts list handed to fragmented_subdisk.
MaxParts == 2
\* Longest buffer handed to read_sector / write_sector.
MaxBuf == 3
\* Number of loans that calls failing after their registration may leave behind.
MaxLeaked == 1
\* The set_fat_entry calls of one run on a Fat12.
MaxSets == 2
\* Largest value and longest list of the SectorSize expressions handed to minimal_ge.
MaxSize == 4
MaxList == 2

VARIABLES
    r_borrows,   \* DiskWrapper.r_borrows: Vec<(usize, usize)>
    w_borrows,   \* DiskWrapper.w_borrows: Vec<(usize, usize)>
    content,     \* the bytes of the backing disk (MemDisk.content)
    views,       \* the SubDisk / FragmentedSubDisk values that are alive
    last,        \* the call that has just ended: arguments, result, state before it
    pc,          \* SpecConc: the position of each thread inside subdisk
    treq,        \* SpecConc: the arguments of each thread's call
    tres,        \* SpecConc: the result of each thread's call
    wrapper,     \* whether the Arc<DiskWrapper> returned by new is still held
    mbr,         \* the GenericMbr that is open on the disk, NoMbr when none is
    fat,         \* the Fat12 that is open on the disk, NoFat when none is
    fat_writes   \* the set_fat_entry calls made so far: arguments and result

vars == <<r_borrows, w_borrows, content, views, last, pc, treq, tres, wrapper, mbr,
          fat, fat_writes>>
thrVars == <<pc, treq, tres>>
\* The state outside the loan sets, the disk, the views and the threads.
fatVars == <<fat, fat_writes>>
extVars == <<wrapper, mbr, fat, fat_writes>>

\* ------------------------------------------------------------ data model
Permissions == [read : BOOLEAN, write : BOOLEAN]
read_only == [read |-> TRUE, write |-> FALSE]
write_only == [read |-> FALSE, write |-> TRUE]
read_write == [read |-> TRUE, write |-> TRUE]
no_access == [read |-> FALSE, write |-> FALSE]

Bytes == {0, 1}
Positions == 0..(DiskSize + 1)
\* The ranges asked for: every non-empty range inside the disk, a range that ends
\* past the disk, an inverted range and an empty one.
Ranges ==
    {rg \in Positions \X Positions : rg[1] < rg[2] /\ rg[2] <= DiskSize}
        \cup {<<DiskSize - 1, DiskSize + 1>>, <<2, 1>>, <<1, 1>>}
\* The ranges the parts of a fragmented request are drawn from.
PartRanges ==
    {<<0, 2>>, <<1, DiskSize>>, <<DiskSize - 1, DiskSize + 1>>, <<2, 1>>}
PartLists == UNION {[1..n -> PartRanges] : n \in 0..MaxParts}
Slots == 1..MaxViews
Threads == {1, 2}

NoView == [kind |-> "none", parts |-> <<>>, permissions |-> no_access]
SubDisk(start, end, permissions) ==
    [kind |-> "SubDisk", parts |-> <<(<<start, end>>)>>, permissions |-> permissions]
FragmentedSubDisk(parts, permissions) ==
    [kind |-> "FragmentedSubDisk", parts |-> parts, permissions |-> permissions]

Live == {v \in Slots : views[v] /= NoView}
FreeSlot == CHOOSE v \in Slots : views[v] = NoView /\ \A u \in Slots : u < v => views[u] /= NoView

\* The loans the live views account for, and the loans no live view accounts for.
RECURSIVE held(_, _)
held(slots, field) ==
    IF slots = {} THEN 0
    ELSE LET v == CHOOSE x \in slots : TRUE
         IN  (IF views[v].permissions[field] THEN Len(views[v].parts) ELSE 0)
             + held(slots \ {v}, field)
Leaked == Len(r_borrows) + Len(w_borrows) - held(Slots, "read") - held(Slots, "write")
Weight(permissions) ==
    (IF permissions.read THEN 1 ELSE 0) + (IF permissions.write THEN 1 ELSE 0)

NoCall ==
    [op |-> "none", parts |-> <<>>, permissions |-> no_access, sector |-> 0, buf |-> <<>>,
     slot |-> 0, res |-> "none", r_before |-> <<>>, w_before |-> <<>>,
     content_before |-> <<>>, fwd |-> <<>>, ext |-> <<>>]

\* --------------------------------------------------- overlap test of the code
\* The test of one registered interval i against the requested [start, end).
Hits(i, start, end) ==
    (i[1] <= start /\ start < i[2]) \/ (i[1] < end /\ end <= i[2])

is_r_borrowed(rb, start, end) == \E k \in 1..Len(rb) : Hits(rb[k], start, end)

is_w_borrowed(wb, start, end) == \E k \in 1..Len(wb) : Hits(wb[k], start, end)

\* Vec::iter().position(|&x| x == item): the first index holding item, 0 for None.
position(v, item) ==
    IF \E k \in 1..Len(v) : v[k] = item
    THEN CHOOSE k \in 1..Len(v) : v[k] = item /\ \A j \in 1..(k - 1) : v[j] /= item
    ELSE 0

\* Vec::swap_remove(idx): the last element takes the place of the removed one.
swap_remove(v, idx) ==
    [k \in 1..(Len(v) - 1) |-> IF k = idx THEN v[Len(v)] ELSE v[k]]

\* Vec::extend_from_slice
extend_from_slice(v, parts) == v \o parts

\* No Fat12 is open: the fields of the struct and of its BiosParameterBlock.
NoFat ==
    [some |-> FALSE, kind |-> "none",
     bpb |-> [count_of_clusters |-> 0, number_of_fats |-> 0,
              reserved_sectors_count |-> 0, fat_size |-> 0,
              sectors_per_cluster |-> 0, root_entries_count |-> 0],
     sector_size |-> 0]

Init ==
    /\ r_borrows = <<>>
    /\ w_borrows = <<>>
    /\ content = [b \in 1..DiskSize |-> 0]
    /\ views = [v \in Slots |-> NoView]
    /\ last = NoCall
    /\ pc = [t \in Threads |-> "idle"]
    /\ treq = [t \in Threads |-> <<0, 0, no_access>>]
    /\ tres = [t \in Threads |-> "none"]
    /\ wrapper = TRUE
    /\ mbr = [some |-> FALSE,
              raw |-> [bootstrap |-> <<>>, partitions |-> <<>>, signature |-> 0],
              sector_size |-> 0]
    /\ fat = NoFat
    /\ fat_writes = <<>>

\* ------------------------------------------------------------ backing disk
\* Disk::disk_infos of the backing disk. The trait lets an implementation fail
\* it; a call of the registry asks for it twice, and infos_ok is the number of
\* these requests the disk answers before it fails one (2: it answers both).
InfosOutcomes == 0..2
disk_size == Len(content)

\* The record of a call that has ended.
Call(op, parts, permissions, slot, res) ==
    [op |-> op, parts |-> parts, permissions |-> permissions, sector |-> 0, buf |-> <<>>,
     slot |-> slot, res |-> res, r_before |-> r_borrows, w_before |-> w_borrows,
     content_before |-> content, fwd |-> <<>>, ext |-> <<>>]

\* The caller takes the result of the call that ended: the next call can start.
take_result ==
    /\ last /= NoCall
    /\ last' = NoCall
    /\ UNCHANGED <<r_borrows, w_borrows, content, views, thrVars, extVars>>

\* --------------------------------------------------- DiskWrapper::subdisk
\* The first test of subdisk: the space is not available.
subdisk_busy(rb, wb, start, end, permissions) ==
    is_w_borrowed(wb, start, end) \/ (is_r_borrowed(rb, start, end) /\ permissions.write)

\* The result of subdisk on the loan sets rb, wb.
subdisk_result(rb, wb, start, end, permissions, infos_ok) ==
    IF subdisk_busy(rb, wb, start, end, permissions) THEN "Busy"
    ELSE IF infos_ok < 1 THEN "IOErr"
    ELSE IF end > disk_size THEN "InvalidDiskSize"
    ELSE IF infos_ok < 2 THEN "IOErr"
    ELSE "Ok"

\* Whether subdisk reaches the pushes: both tests and the first disk_infos passed.
subdisk_registers(rb, wb, start, end, permissions, infos_ok) ==
    /\ ~subdisk_busy(rb, wb, start, end, permissions)
    /\ infos_ok >= 1
    /\ end <= disk_size

subdisk(start, end, permissions, infos_ok) ==
    LET res == subdisk_result(r_borrows, w_borrows, start, end, permissions, infos_ok)
        reg == subdisk_registers(r_borrows, w_borrows, start, end, permissions, infos_ok)
    IN  /\ last = NoCall
        /\ res = "Ok" => Live /= Slots
        /\ (reg /\ res /= "Ok") => Leaked + Weight(permissions) <= MaxLeaked
        /\ r_borrows' = IF reg /\ permissions.read
                        THEN Append(r_borrows, <<start, end>>) ELSE r_borrows
        /\ w_borrows' = IF reg /\ permissions.write
                        THEN Append(w_borrows, <<start, end>>) ELSE w_borrows
        /\ views' = IF res = "Ok"
                    THEN [views EXCEPT ![FreeSlot] = SubDisk(start, end, permissions)]
                    ELSE views
        /\ last' = Call("subdisk", <<(<<start, end>>)>>, permissions,
                        IF res = "Ok" THEN FreeSlot ELSE 0, res)
        /\ UNCHANGED <<content, thrVars, extVars>>

\* ------------------------------------------------ impl Drop for SubDisk / FragmentedSubDisk
\* self.parent.upgrade(): the weak handle of a view yields the registry as long
\* as the registry has not been destroyed.
upgrade == wrapper

\* The loop of drop over the parts of a view: every part is looked up by equality
\* and one occurrence removed; unwrap() panics when the part is not found.
RECURSIVE remove_parts(_, _)
remove_parts(v, parts) ==
    IF parts = <<>> THEN [panic |-> FALSE, v |-> v]
    ELSE LET idx == position(v, Head(parts))
         IN  IF idx = 0 THEN [panic |-> TRUE, v |-> v]
             ELSE remove_parts(swap_remove(v, idx), Tail(parts))

drop(slot) ==
    LET view == views[slot]
        r == IF upgrade /\ view.permissions.read THEN remove_parts(r_borrows, view.parts)
             ELSE [panic |-> FALSE, v |-> r_borrows]
        w == IF upgrade /\ view.permissions.write /\ ~r.panic
             THEN remove_parts(w_borrows, view.parts)
             ELSE [panic |-> FALSE, v |-> w_borrows]
    IN  /\ last = NoCall
        /\ view /= NoView
        /\ r_borrows' = r.v
        /\ w_borrows' = w.v
        /\ views' = [views EXCEPT ![slot] = NoView]
        /\ last' = Call("drop", view.parts, view.permissions, slot,
                        IF r.panic \/ w.panic THEN "Panic" ELSE "Ok")
        /\ UNCHANGED <<content, thrVars, extVars>>

\* ------------------------------------------ DiskWrapper::fragmented_subdisk
\* The loop over the parts: the error of the first part that fails a test, "Ok"
\* when every part passes. rb and wb are the loan sets the call has locked.
RECURSIVE check_parts(_, _, _, _)
check_parts(rb, wb, parts, permissions) ==
    IF parts = <<>> THEN "Ok"
    ELSE LET start == Head(parts)[1]
             end == Head(parts)[2]
         IN  IF start > end \/ end > disk_size THEN "InvalidDiskSize"
             ELSE IF permissions.read /\ \E k \in 1..Len(rb) : Hits(rb[k], start, end)
                  THEN "SpaceAlreadyInUse"
             ELSE IF permissions.write /\ \E k \in 1..Len(wb) : Hits(wb[k], start, end)
                  THEN "SpaceAlreadyInUse"
             ELSE check_parts(rb, wb, Tail(parts), permissions)

fragmented_result(rb, wb, parts, permissions, infos_ok) ==
    IF infos_ok < 1 THEN "IOErr"
    ELSE IF check_parts(rb, wb, parts, permissions) /= "Ok"
         THEN check_parts(rb, wb, parts, permissions)
    ELSE IF infos_ok < 2 THEN "IOErr"
    ELSE "Ok"

\* Whether fragmented_subdisk reaches extend_from_slice.
fragmented_registers(rb, wb, parts, permissions, infos_ok) ==
    infos_ok >= 1 /\ check_parts(rb, wb, parts, permissions) = "Ok"

fragmented_subdisk(parts, permissions, infos_ok) ==
    LET res == fragmented_result(r_borrows, w_borrows, parts, permissions, infos_ok)
        reg == fragmented_registers(r_borrows, w_borrows, parts, permissions, infos_ok)
    IN  /\ last = NoCall
        /\ res = "Ok" => Live /= Slots
        /\ (reg /\ res /= "Ok") => Leaked + Len(parts) * Weight(permissions) <= MaxLeaked
        /\ r_borrows' = IF reg /\ permissions.read
                        THEN extend_from_slice(r_borrows, parts) ELSE r_borrows
        /\ w_borrows' = IF reg /\ permissions.write
                        THEN extend_from_slice(w_borrows, parts) ELSE w_borrows
        /\ views' = IF res = "Ok"
                    THEN [views EXCEPT ![FreeSlot] = FragmentedSubDisk(parts, permissions)]
                    ELSE views
        /\ last' = Call("fragmented_subdisk", parts, permissions,
                        IF res = "Ok" THEN FreeSlot ELSE 0, res)
        /\ UNCHANGED <<content, thrVars, extVars>>

\* -------------------------------- DiskWrapper::is_r_borrowed / is_w_borrowed
\* The two public queries, called on the registry as it stands.
QueryCall(op, start, end, answer) ==
    /\ last = NoCall
    /\ last' = Call(op, <<(<<start, end>>)>>, no_access, 0, IF answer THEN "true" ELSE "false")
    /\ UNCHANGED <<r_borrows, w_borrows, content, views, thrVars, extVars>>

query_r_borrowed(start, end) ==
    QueryCall("is_r_borrowed", start, end, is_r_borrowed(r_borrows, start, end))

query_w_borrowed(start, end) ==
    QueryCall("is_w_borrowed", start, end, is_w_borrowed(w_borrows, start, end))

\* ------------------------------------------------------ SectorSize::is_supported
Any == [kind |-> "Any", list |-> <<>>]
AllOf(l) == [kind |-> "AllOf", list |-> l]
AnyExcept(l) == [kind |-> "AnyExcept", list |-> l]
InRanges(rs) == [kind |-> "InRanges", list |-> rs]
AnyExceptRanges(rs) == [kind |-> "AnyExceptRanges", list |-> rs]

is_supported(self, sector_size, size) ==
    /\ CASE self.kind = "Any" -> TRUE
         [] self.kind = "AllOf" -> \E k \in 1..Len(self.list) : self.list[k] = sector_size
         [] self.kind = "AnyExcept" -> ~\E k \in 1..Len(self.list) : self.list[k] = sector_size
         [] self.kind = "InRanges" ->
                \E k \in 1..Len(self.list) :
                    self.list[k][1] <= sector_size /\ sector_size < self.list[k][2]
         [] self.kind = "AnyExceptRanges" ->
                ~\E k \in 1..Len(self.list) :
                    self.list[k][1] <= sector_size /\ sector_size < self.list[k][2]
    /\ sector_size <= size

\* ---------------------------------------------------------------- MemDisk
\* The backing disk is a MemDisk that accepts every sector size and both
\* directions.
memdisk_sector_size == Any
memdisk_permissions == read_write

\* The result of MemDisk::read_sector / write_sector; slicing content past its
\* end panics.
memdisk_result(permitted, sector, len) ==
    IF ~permitted THEN "InvalidPermission"
    ELSE IF ~is_supported(memdisk_sector_size, len, Len(content)) THEN "InvalidSectorSize"
    ELSE IF (sector + 1) * len > Len(content) THEN "Panic"
    ELSE "Ok"

\* copy_from_slice in both directions; bytes are numbered from 0, sequences from 1.
memdisk_read(sector, len) == [k \in 1..len |-> content[sector * len + k]]
memdisk_write(sector, buf) ==
    [b \in 1..Len(content) |->
        IF sector * Len(buf) < b /\ b <= (sector + 1) * Len(buf)
        THEN buf[b - sector * Len(buf)] ELSE content[b]]

IoCall(op, sector, buf, res) ==
    [op |-> op, parts |-> <<>>, permissions |-> no_access, sector |-> sector, buf |-> buf,
     slot |-> 0, res |-> res, r_before |-> r_borrows, w_before |-> w_borrows,
     content_before |-> content, fwd |-> <<>>, ext |-> <<>>]

\* ------------------------------------------------- impl Disk for DiskWrapper
\* buf is the caller's buffer; a read leaves it untouched unless it succeeds.
wrapper_read_result(sector, len) ==
    IF is_w_borrowed(w_borrows, sector * len, sector * len + len) THEN "Busy"
    ELSE memdisk_result(memdisk_permissions.read, sector, len)

wrapper_read_sector(sector, buf) ==
    LET res == wrapper_read_result(sector, Len(buf))
    IN  /\ last = NoCall
        /\ last' = IoCall("read_sector", sector,
                          IF res = "Ok" THEN memdisk_read(sector, Len(buf)) ELSE buf, res)
        /\ UNCHANGED <<r_borrows, w_borrows, content, views, thrVars, extVars>>

wrapper_write_result(sector, len) ==
    IF \/ is_w_borrowed(w_borrows, sector * len, sector * len + len)
       \/ is_r_borrowed(r_borrows, sector * len, sector * len + len)
    THEN "Busy"
    ELSE memdisk_result(memdisk_permissions.write, sector, len)

wrapper_write_sector(sector, buf) ==
    LET res == wrapper_write_result(sector, Len(buf))
    IN  /\ last = NoCall
        /\ content' = IF res = "Ok" THEN memdisk_write(sector, buf) ELSE content
        /\ last' = IoCall("write_sector", sector, buf, res)
        /\ UNCHANGED <<r_borrows, w_borrows, views, thrVars, extVars>>

\* ------------------------------------------------------- impl Disk for SubDisk
\* usize::is_multiple_of: n.is_multiple_of(0) is n == 0.
is_multiple_of(n, d) == IF d = 0 THEN n = 0 ELSE n % d = 0

\* The sector size a view declares: the one its disk reported at issuance.
view_sector_size == memdisk_sector_size

\* The record of a call on a view: fwd is the (sector, length) request the call
\* handed to parent.disk, <<>> when it handed none.
ViewCall(op, slot, sector, buf, res, fwd) ==
    [op |-> op, parts |-> views[slot].parts, permissions |-> views[slot].permissions,
     sector |-> sector, buf |-> buf, slot |-> slot, res |-> res,
     r_before |-> r_borrows, w_before |-> w_borrows, content_before |-> content,
     fwd |-> fwd, ext |-> <<>>]

\* The checks SubDisk::read_sector and write_sector share; permitted is the
\* permission bit of the direction. self.end - self.start underflows when the
\* view was issued with start > end: a build with overflow checks panics, a
\* build without them goes on with a size near 2^64, which every buffer length
\* of the model is below. The result is "Forward" when the request reaches
\* parent.disk.
subdisk_io_check(view, permitted, sector, len, overflow_checks) ==
    LET start == view.parts[1][1]
        end == view.parts[1][2]
        offset == start + len * sector
    IN  IF ~upgrade THEN "UnreachableDisk"
        ELSE IF ~permitted THEN "InvalidPermission"
        ELSE IF start > end /\ overflow_checks THEN "Panic"
        ELSE IF \/ ~is_supported(view_sector_size, len, IF start > end THEN len ELSE end - start)
                \/ ~is_multiple_of(start, len)
             THEN "InvalidSectorSize"
        ELSE IF len = 0 THEN "Panic"
        ELSE IF offset >= end THEN "InvalidSectorIndex"
        ELSE "Forward"

\* let sector = offset / sector_size
subdisk_io_sector(view, sector, len) == (view.parts[1][1] + len * sector) \div len

\* ---------------------------------------------- impl Disk for FragmentedSubDisk
\* FragmentedSubDisk.size: the sum of the sizes of the parts.
RECURSIVE view_size(_)
view_size(parts) ==
    IF parts = <<>> THEN 0 ELSE Head(parts)[2] - Head(parts)[1] + view_size(Tail(parts))

\* The loop over the parts without the subtraction of the sectors of the
\* fragments already passed.
RECURSIVE locate_no_rebase(_, _, _, _)
locate_no_rebase(parts, sector, sector_size, current_sector) ==
    IF parts = <<>> THEN [res |-> "Forward", offset |-> 0]
    ELSE LET start == Head(parts)[1]
             size == Head(parts)[2] - Head(parts)[1]
         IN  IF size % sector_size /= 0 \/ start % sector_size /= 0
             THEN [res |-> "InvalidSectorSize", offset |-> 0]
             ELSE IF current_sector + size \div sector_size > sector
             THEN [res |-> "Forward", offset |-> start + sector * sector_size]
             ELSE locate_no_rebase(Tail(parts), sector, sector_size,
                                   current_sector + size \div sector_size)

\* The loop over the parts: the parent byte offset of the sector, which stays 0
\* when the loop ends without finding the sector.
RECURSIVE locate(_, _, _, _)
locate(parts, sector, sector_size, current_sector) ==
    IF parts = <<>> THEN [res |-> "Forward", offset |-> 0]
    ELSE LET start == Head(parts)[1]
             size == Head(parts)[2] - Head(parts)[1]
         IN  IF size % sector_size /= 0 \/ start % sector_size /= 0
             THEN [res |-> "InvalidSectorSize", offset |-> 0]
             ELSE IF current_sector + size \div sector_size > sector
             THEN [res |-> "Forward",
                   offset |-> start + (sector - current_sector) * sector_size]
             ELSE locate(Tail(parts), sector, sector_size,
                         current_sector + size \div sector_size)

fragmented_io_check(view, permitted, sector, len) ==
    IF ~upgrade THEN "UnreachableDisk"
    ELSE IF ~permitted THEN "InvalidPermission"
    ELSE IF view.parts = <<>> THEN "InvalidSectorIndex"
    ELSE IF ~is_supported(view_sector_size, len, view_size(view.parts))
         THEN "InvalidSectorSize"
    ELSE IF len = 0 THEN "Panic"
    ELSE locate(view.parts, sector, len, 0).res

fragmented_io_sector(view, sector, len) == locate(view.parts, sector, len, 0).offset \div len

\* ------------------------------------------------------------ calls on a view
io_check(view, permitted, sector, len, overflow_checks) ==
    IF view.kind = "SubDisk"
    THEN subdisk_io_check(view, permitted, sector, len, overflow_checks)
    ELSE fragmented_io_check(view, permitted, sector, len)

io_sector(view, sector, len) ==
    IF view.kind = "SubDisk" THEN subdisk_io_sector(view, sector, len)
    ELSE fragmented_io_sector(view, sector, len)

view_read_sector(slot, sector, buf, overflow_checks) ==
    LET view == views[slot]
        len == Len(buf)
        chk == io_check(view, view.permissions.read, sector, len, overflow_checks)
        psector == io_sector(view, sector, len)
        res == IF chk = "Forward" THEN memdisk_result(memdisk_permissions.read, psector, len)
               ELSE chk
    IN  /\ last = NoCall
        /\ view /= NoView
        /\ last' = ViewCall("view_read_sector", slot, sector,
                            IF res = "Ok" THEN memdisk_read(psector, len) ELSE buf, res,
                            IF chk = "Forward" THEN <<psector, len>> ELSE <<>>)
        /\ UNCHANGED <<r_borrows, w_borrows, content, views, thrVars, extVars>>

view_write_sector(slot, sector, buf, overflow_checks) ==
    LET view == views[slot]
        len == Len(buf)
        chk == io_check(view, view.permissions.write, sector, len, overflow_checks)
        psector == io_sector(view, sector, len)
        res == IF chk = "Forward" THEN memdisk_result(memdisk_permissions.write, psector, len)
               ELSE chk
    IN  /\ last = NoCall
        /\ view /= NoView
        /\ content' = IF res = "Ok" THEN memdisk_write(psector, buf) ELSE content
        /\ last' = ViewCall("view_write_sector", slot, sector, buf, res,
                            IF chk = "Forward" THEN <<psector, len>> ELSE <<>>)
        /\ UNCHANGED <<r_borrows, w_borrows, views, thrVars, extVars>>

\* SubDisk::disk_infos / FragmentedSubDisk::disk_infos: the values cached in the
\* view, without a look at the parent.
view_disk_infos(slot) ==
    /\ last = NoCall
    /\ views[slot] /= NoView
    /\ last' = ViewCall("view_disk_infos", slot, 0, <<>>, "Ok", <<>>)
    /\ UNCHANGED <<r_borrows, w_borrows, content, views, thrVars, extVars>>

\* The last Arc<DiskWrapper> is dropped: the registry, its loan sets and the
\* disk it owns are destroyed, the views keep their weak handles.
drop_wrapper ==
    /\ last = NoCall
    /\ wrapper
    /\ wrapper' = FALSE
    /\ last' = [NoCall EXCEPT !.op = "drop_wrapper", !.res = "Ok",
                              !.r_before = r_borrows, !.w_before = w_borrows,
                              !.content_before = content]
    /\ UNCHANGED <<r_borrows, w_borrows, content, views, thrVars, mbr, fatVars>>

\* ------------------------------------------------------ SectorSize::minimal_ge
None == [some |-> FALSE, v |-> 0]
Some(v) == [some |-> TRUE, v |-> v]

\* AllOf: the loop over the list, min the value found so far.
RECURSIVE minimal_ge_all_of(_, _, _)
minimal_ge_all_of(l, sector_size, min) ==
    IF l = <<>> THEN min
    ELSE IF Head(l) = sector_size THEN Some(sector_size)
    ELSE IF Head(l) > sector_size /\ (~min.some \/ Head(l) < min.v)
         THEN minimal_ge_all_of(Tail(l), sector_size, Some(Head(l)))
    ELSE minimal_ge_all_of(Tail(l), sector_size, min)

\* sort_unstable on a list of numbers.
RECURSIVE sort_unstable(_)
sort_unstable(l) ==
    IF l = <<>> THEN <<>>
    ELSE LET k == CHOOSE i \in 1..Len(l) : \A j \in 1..Len(l) : l[i] <= l[j]
         IN  <<l[k]>> \o sort_unstable([i \in 1..(Len(l) - 1) |-> IF i < k THEN l[i] ELSE l[i + 1]])

\* AnyExcept: the loop over the sorted list.
RECURSIVE minimal_ge_any_except(_, _)
minimal_ge_any_except(v, min) ==
    IF v = <<>> THEN min
    ELSE IF Head(v) = min THEN minimal_ge_any_except(Tail(v), min + 1)
    ELSE IF Head(v) > min THEN min
    ELSE minimal_ge_any_except(Tail(v), min)

\* InRanges: the loop over the ranges.
RECURSIVE minimal_ge_in_ranges(_, _, _)
minimal_ge_in_ranges(ranges, sector_size, min) ==
    IF ranges = <<>> THEN min
    ELSE LET start == Head(ranges)[1]
             end == Head(ranges)[2]
             v == IF sector_size < start THEN start ELSE sector_size
         IN  IF end <= sector_size THEN minimal_ge_in_ranges(Tail(ranges), sector_size, min)
             ELSE IF ~min.some \/ v < min.v
                  THEN minimal_ge_in_ranges(Tail(ranges), sector_size, Some(v))
             ELSE minimal_ge_in_ranges(Tail(ranges), sector_size, min)

\* AnyExceptRanges: one pass of the inner loop, then the outer loop.
RECURSIVE bump(_, _, _)
bump(ranges, min, acc) ==
    IF ranges = <<>> THEN acc
    ELSE IF Head(ranges)[1] <= min /\ min < Head(ranges)[2]
         THEN bump(Tail(ranges), min,
                   [inside |-> TRUE,
                    bump_to |-> IF acc.bump_to > Head(ranges)[2]
                                THEN acc.bump_to ELSE Head(ranges)[2]])
    ELSE bump(Tail(ranges), min, acc)

RECURSIVE minimal_ge_any_except_ranges(_, _)
minimal_ge_any_except_ranges(ranges, min) ==
    LET pass == bump(ranges, min, [inside |-> FALSE, bump_to |-> min + 1])
    IN  IF pass.inside THEN minimal_ge_any_except_ranges(ranges, pass.bump_to)
        ELSE min

minimal_ge(self, sector_size) ==
    CASE self.kind = "Any" -> Some(sector_size)
      [] self.kind = "AllOf" -> minimal_ge_all_of(self.list, sector_size, None)
      [] self.kind = "AnyExcept" ->
            Some(minimal_ge_any_except(sort_unstable(self.list), sector_size))
      [] self.kind = "InRanges" -> minimal_ge_in_ranges(self.list, sector_size, None)
      [] self.kind = "AnyExceptRanges" ->
            Some(minimal_ge_any_except_ranges(self.list, sector_size))

\* ------------------------------------------------------------- u32 and usize
\* A number n is held as <<n / 2^16, n % 2^16>>: a u32 has its high part below
\* 2^16, a usize may have it larger.
Limb == 65536
W(n) == <<n \div Limb, n % Limb>>
WLt(a, b) == a[1] < b[1] \/ (a[1] = b[1] /\ a[2] < b[2])
WLe(a, b) == ~WLt(b, a)
WAdd(a, b) == <<a[1] + b[1] + (a[2] + b[2]) \div Limb, (a[2] + b[2]) % Limb>>
WMul(a, k) == <<a[1] * k + (a[2] * k) \div Limb, (a[2] * k) % Limb>>
WInt(a) == a[1] * Limb + a[2]
\* u32::try_from(usize) succeeds
u32_fits(a) == a[1] < Limb
\* u32 + u32 overflows; the wrapped sum of a build without overflow checks
u32_overflows(a, b) == WAdd(a, b)[1] >= Limb
u32_wrapping_add(a, b) == <<WAdd(a, b)[1] % Limb, WAdd(a, b)[2]>>
to_be_bytes(x) == <<x[1] \div 256, x[1] % 256, x[2] \div 256, x[2] % 256>>
to_le_bytes(x) == <<x[2] % 256, x[2] \div 256, x[1] % 256, x[1] \div 256>>
from_le_bytes(b) == <<b[3] + 256 * b[4], b[1] + 256 * b[2]>>

\* ----------------------------------------------------------- RawMbr, MbrEntry
BootstrapLen == 446
MbrLen == 512
EntryLen == 16
Signature == 43605
Zeros(n) == [k \in 1..n |-> 0]

MbrEntry_empty ==
    [status |-> 0, chs_first |-> Zeros(3), partition_type |-> 0, chs_last |-> Zeros(3),
     lba_first |-> W(0), sectors |-> W(0)]

write_to(e) ==
    <<e.status>> \o e.chs_first \o <<e.partition_type>> \o e.chs_last
        \o to_le_bytes(e.lba_first) \o to_le_bytes(e.sectors)

read_from(buf) ==
    [status |-> buf[1], chs_first |-> <<buf[2], buf[3], buf[4]>>,
     partition_type |-> buf[5], chs_last |-> <<buf[6], buf[7], buf[8]>>,
     lba_first |-> from_le_bytes(<<buf[9], buf[10], buf[11], buf[12]>>),
     sectors |-> from_le_bytes(<<buf[13], buf[14], buf[15], buf[16]>>)]

to_bytes(raw) ==
    raw.bootstrap
        \o write_to(raw.partitions[1]) \o write_to(raw.partitions[2])
        \o write_to(raw.partitions[3]) \o write_to(raw.partitions[4])
        \o <<raw.signature % 256, raw.signature \div 256>>

\* from_bytes of a buffer of at least 512 bytes (a shorter one gives None).
from_bytes(buf) ==
    [bootstrap |-> SubSeq(buf, 1, BootstrapLen),
     partitions |->
        [i \in 1..4 |->
            read_from(SubSeq(buf, BootstrapLen + (i - 1) * EntryLen + 1,
                             BootstrapLen + i * EntryLen))],
     signature |-> buf[511] + 256 * buf[512]]

\* ---------------------------------------------------------------- GenericMbr
NoMbr ==
    [some |-> FALSE,
     raw |-> [bootstrap |-> <<>>, partitions |-> <<>>, signature |-> 0],
     sector_size |-> 0]

\* The record of a call on a GenericMbr: index, start, size and partition_type
\* are its arguments, before is the GenericMbr when the call started, out the
\* value returned (for new and read_from_disk, the sector size asked for).
MbrCall(op, res, index, start, size, partition_type, out) ==
    [NoCall EXCEPT !.op = op, !.res = res,
                   !.r_before = r_borrows, !.w_before = w_borrows,
                   !.content_before = content,
                   !.ext = [index |-> index, start |-> start, size |-> size,
                            partition_type |-> partition_type, before |-> mbr,
                            out |-> out]]

\* The sector size of new / read_from_disk: the one given, else the smallest
\* one from 512 that the disk supports.
chosen_sector_size(sector_size) ==
    IF sector_size.some THEN sector_size ELSE minimal_ge(memdisk_sector_size, MbrLen)

\* GenericMbr::new: a registry is created over the disk; the views of an
\* earlier registry have been dropped.
mbr_new(sector_size) ==
    LET ss == chosen_sector_size(sector_size)
    IN  /\ last = NoCall
        /\ ~mbr.some /\ Live = {}
        /\ IF ss.some
           THEN /\ mbr' = [some |-> TRUE,
                           raw |-> [bootstrap |-> Zeros(BootstrapLen),
                                    partitions |-> [i \in 1..4 |-> MbrEntry_empty],
                                    signature |-> Signature],
                           sector_size |-> ss.v]
                /\ wrapper' = TRUE
                /\ r_borrows' = <<>> /\ w_borrows' = <<>>
           ELSE UNCHANGED <<mbr, wrapper, r_borrows, w_borrows>>
        /\ last' = MbrCall("new", IF ss.some THEN "Ok" ELSE "UnsupportedDiskSectorSize",
                           0, W(0), W(0), 0, sector_size)
        /\ UNCHANGED <<content, views, thrVars, fatVars>>

\* RawMbr::read_from_disk on the disk itself: the result and the table decoded.
raw_read_result ==
    LET ss == minimal_ge(memdisk_sector_size, MbrLen)
    IN  IF ~ss.some THEN "UnsupportedDiskSectorSize"
        ELSE memdisk_result(memdisk_permissions.read, 0, ss.v)

raw_read == from_bytes(memdisk_read(0, minimal_ge(memdisk_sector_size, MbrLen).v))

\* GenericMbr::read_from_disk: "None" is the absent table of a wrong signature.
mbr_read_from_disk(sector_size) ==
    LET ss == chosen_sector_size(sector_size)
        res == IF ~ss.some THEN "UnsupportedDiskSectorSize"
               ELSE IF raw_read_result /= "Ok" THEN raw_read_result
               ELSE IF raw_read.signature = Signature THEN "Some"
               ELSE "None"
    IN  /\ last = NoCall
        /\ ~mbr.some /\ Live = {}
        /\ IF res = "Some"
           THEN /\ mbr' = [some |-> TRUE, raw |-> raw_read, sector_size |-> ss.v]
                /\ wrapper' = TRUE
                /\ r_borrows' = <<>> /\ w_borrows' = <<>>
           ELSE UNCHANGED <<mbr, wrapper, r_borrows, w_borrows>>
        /\ last' = MbrCall("read_from_disk", res, 0, W(0), W(0), 0, sector_size)
        /\ UNCHANGED <<content, views, thrVars, fatVars>>

\* GenericMbr::write, RawMbr::write_to_disk through the registry.
mbr_write ==
    LET ss == minimal_ge(memdisk_sector_size, MbrLen)
        sector == to_bytes(mbr.raw) \o Zeros(ss.v - MbrLen)
        res == IF ~ss.some THEN "UnsupportedDiskSectorSize"
               ELSE wrapper_write_result(0, ss.v)
    IN  /\ last = NoCall
        /\ mbr.some
        /\ content' = IF res = "Ok" THEN memdisk_write(0, sector) ELSE content
        /\ last' = MbrCall("write", res, 0, W(0), W(0), 0, <<>>)
        /\ UNCHANGED <<r_borrows, w_borrows, views, thrVars, extVars>>

\* The GenericMbr is dropped and with it the registry it holds.
mbr_drop ==
    /\ last = NoCall
    /\ mbr.some
    /\ mbr' = NoMbr
    /\ wrapper' = FALSE
    /\ last' = MbrCall("mbr_drop", "Ok", 0, W(0), W(0), 0, <<>>)
    /\ UNCHANGED <<r_borrows, w_borrows, content, views, thrVars, fatVars>>

\* The end of a partition as the code computes it, p.lba_first + p.sectors in
\* u32: a build with overflow checks panics when the sum passes 2^32 - 1, a
\* build without them wraps.
u32_end(p) == u32_wrapping_add(p.lba_first, p.sectors)

\* The loop of create_partition over the four entries.
RECURSIVE overlap_loop(_, _, _, _)
overlap_loop(partitions, start, end, overflow_checks) ==
    IF partitions = <<>> THEN "Ok"
    ELSE LET p == Head(partitions)
             adds == WLe(p.lba_first, start) \/ WLt(p.lba_first, end)
         IN  IF adds /\ overflow_checks /\ u32_overflows(p.lba_first, p.sectors)
             THEN "Panic"
             ELSE IF \/ WLe(p.lba_first, start) /\ WLt(start, u32_end(p))
                     \/ WLt(p.lba_first, end) /\ WLe(end, u32_end(p))
             THEN "SpaceAlreadyInUse"
             ELSE overlap_loop(Tail(partitions), start, end, overflow_checks)

create_partition_result(partition_index, start, size, overflow_checks) ==
    LET end == WAdd(start, size)
        loop == overlap_loop(mbr.raw.partitions, start, end, overflow_checks)
    IN  IF partition_index >= 4 THEN "InvalidPartitionIndex"
        ELSE IF loop /= "Ok" THEN loop
        ELSE IF start = W(0) THEN "SpaceAlreadyInUse"
        ELSE IF mbr.sector_size = 0 THEN "Panic"
        ELSE IF WLt(W(disk_size \div mbr.sector_size), end) THEN "InvalidSectorIndex"
        ELSE IF ~u32_fits(start) \/ ~u32_fits(size) THEN "OutOfRangeValue"
        ELSE "Ok"

mbr_create_partition(partition_index, start, size, partition_type, overflow_checks) ==
    LET res == create_partition_result(partition_index, start, size, overflow_checks)
        entry == [chs_last |-> Zeros(3), chs_first |-> Zeros(3), lba_first |-> start,
                  sectors |-> size, status |-> 128, partition_type |-> partition_type]
    IN  /\ last = NoCall
        /\ mbr.some
        /\ mbr' = IF res = "Ok"
                  THEN [mbr EXCEPT !.raw.partitions[partition_index + 1] = entry]
                  ELSE mbr
        /\ last' = MbrCall("create_partition", res, partition_index, start, size,
                           partition_type, <<>>)
        /\ UNCHANGED <<r_borrows, w_borrows, content, views, thrVars, wrapper, fatVars>>

\* GenericMbr::partition_infos: Vec::get gives an entry for every index below 4.
mbr_partition_infos(partition_index) ==
    LET v == mbr.raw.partitions[partition_index + 1]
    IN  /\ last = NoCall
        /\ mbr.some
        /\ last' = IF partition_index < 4
                   THEN MbrCall("partition_infos", "Some", partition_index, W(0), W(0), 0,
                                [lba_start |-> v.lba_first, size |-> v.sectors,
                                 sector_size |-> mbr.sector_size,
                                 partition_type |-> v.partition_type])
                   ELSE MbrCall("partition_infos", "None", partition_index, W(0), W(0), 0, <<>>)
        /\ UNCHANGED <<r_borrows, w_borrows, content, views, thrVars, extVars>>

\* GenericMbr::get_partition: the range handed to DiskWrapper::subdisk, then
\* subdisk itself.
get_partition_start(p) == WInt(WMul(p.lba_first, mbr.sector_size))
get_partition_end(p) == WInt(WMul(u32_end(p), mbr.sector_size))

mbr_get_partition(partition_index, permissions, overflow_checks) ==
    LET p == mbr.raw.partitions[partition_index + 1]
        panics == overflow_checks /\ u32_overflows(p.lba_first, p.sectors)
        start == get_partition_start(p)
        end == get_partition_end(p)
        res == IF partition_index >= 4 THEN "InvalidPartitionIndex"
               ELSE IF panics THEN "Panic"
               ELSE subdisk_result(r_borrows, w_borrows, start, end, permissions, 2)
        reg == /\ partition_index < 4 /\ ~panics
               /\ subdisk_registers(r_borrows, w_borrows, start, end, permissions, 2)
    IN  /\ last = NoCall
        /\ mbr.some
        /\ res = "Ok" => Live /= Slots
        /\ r_borrows' = IF reg /\ permissions.read
                        THEN Append(r_borrows, <<start, end>>) ELSE r_borrows
        /\ w_borrows' = IF reg /\ permissions.write
                        THEN Append(w_borrows, <<start, end>>) ELSE w_borrows
        /\ views' = IF res = "Ok"
                    THEN [views EXCEPT ![FreeSlot] = SubDisk(start, end, permissions)]
                    ELSE views
        /\ last' = [MbrCall("get_partition", res, partition_index, W(0), W(0), 0, <<>>)
                        EXCEPT !.permissions = permissions,
                               !.slot = IF res = "Ok" THEN FreeSlot ELSE 0]
        /\ UNCHANGED <<content, thrVars, extVars>>

\* ------------------------------------------------------------------ FatEntry
\* enum FatEntry; NoEntry stands where a call returned no entry.
Free == [tag |-> "Free", next |-> 0]
Allocated(next) == [tag |-> "Allocated", next |-> next]
Bad == [tag |-> "Bad", next |-> 0]
EOF == [tag |-> "EOF", next |-> 0]
NoEntry == [tag |-> "none", next |-> 0]

\* FatEntry::from_fat12: res is "Ok" or the FatError, entry the value of Ok.
from_fat12(value) ==
    IF value > 4095 THEN [res |-> "InvalidValueForFATX", entry |-> NoEntry]
    ELSE IF value = 0 THEN [res |-> "Ok", entry |-> Free]
    ELSE IF 2 <= value /\ value <= 4086 THEN [res |-> "Ok", entry |-> Allocated(value)]
    ELSE IF value = 4087 THEN [res |-> "Ok", entry |-> Bad]
    ELSE IF value = 4095 THEN [res |-> "Ok", entry |-> EOF]
    ELSE [res |-> "ReservedValue", entry |-> NoEntry]

\* FatEntry::to_fat12: res is "Ok" or the FatError, value the number of Ok.
to_fat12(self) ==
    IF self.tag = "Free" THEN [res |-> "Ok", value |-> 0]
    ELSE IF self.tag = "Allocated"
         THEN IF self.next > 4086 \/ self.next < 2
              THEN [res |-> "Ok", value |-> self.next]
              ELSE [res |-> "InvalidValueForFATX", value |-> 0]
    ELSE IF self.tag = "Bad" THEN [res |-> "Ok", value |-> 4087]
    ELSE [res |-> "Ok", value |-> 4095]

\* FatEntry::is_eof
is_eof(self) == self = EOF

\* --------------------------------------------------------------- u8 and u16
RECURSIVE bitand(_, _)
bitand(a, b) ==
    IF a = 0 \/ b = 0 THEN 0
    ELSE (IF a % 2 = 1 /\ b % 2 = 1 THEN 1 ELSE 0) + 2 * bitand(a \div 2, b \div 2)

RECURSIVE bitor(_, _)
bitor(a, b) ==
    IF a = 0 THEN b
    ELSE IF b = 0 THEN a
    ELSE (IF a % 2 = 1 \/ b % 2 = 1 THEN 1 ELSE 0) + 2 * bitor(a \div 2, b \div 2)

\* v as u16, and value <<= 4 on a u16: the bits shifted out are lost.
as_u16(v) == v % 65536
shl4(value) == (value * 16) % 65536
u16_from_le_bytes(b0, b1) == b0 + 256 * b1
u16_to_le_bytes(value) == <<value % 256, value \div 256>>

\* --------------------------------------------------------------------- Fat12
\* The record of a call on a Fat12 or on a FatEntry: index, fat_index and value
\* are the arguments of get_fat_entry / set_fat_entry, raw the number given to
\* from_fat12 or returned by to_fat12, out the entry returned.
FatCall(op, res, index, fat_index, value, raw, out) ==
    [NoCall EXCEPT !.op = op, !.res = res,
                   !.r_before = r_borrows, !.w_before = w_borrows,
                   !.content_before = content,
                   !.ext = [index |-> index, fat_index |-> fat_index, value |-> value,
                            raw |-> raw, out |-> out]]

\* The accessors of the BiosParameterBlock that get_fat_entry and set_fat_entry
\* call.
count_of_clusters == fat.bpb.count_of_clusters
number_of_fats == fat.bpb.number_of_fats
reserved_sectors_count == fat.bpb.reserved_sectors_count
fat_size == fat.bpb.fat_size

\* Where entry index of FAT copy fat_index lies.
fat_offset(index) == index + index \div 2
sector_number(index, fat_index) ==
    reserved_sectors_count + fat_offset(index) \div fat.sector_size + fat_index * fat_size
fat_entry_offset(index) == fat_offset(index) % fat.sector_size
\* The test under which the code also reads the sector after sector_number.
reads_next_sector(index) == fat_offset(index) = fat.sector_size - 1

\* The bytes a successful read_sector(sector, buf) of len bytes finds when the
\* disk holds c.
sector_bytes(c, sector, len) == [k \in 1..len |-> c[sector * len + k]]

\* The results of the reads at the head of get_fat_entry and set_fat_entry, and
\* the 2 * sector_size bytes of sectors after them when the disk holds c.
read_sectors_result(index, fat_index) ==
    LET first == wrapper_read_result(sector_number(index, fat_index), fat.sector_size)
    IN  IF first /= "Ok" THEN first
        ELSE IF reads_next_sector(index)
             THEN wrapper_read_result(sector_number(index, fat_index) + 1, fat.sector_size)
        ELSE "Ok"

read_sectors(c, index, fat_index) ==
    sector_bytes(c, sector_number(index, fat_index), fat.sector_size)
    \o (IF reads_next_sector(index)
        THEN sector_bytes(c, sector_number(index, fat_index) + 1, fat.sector_size)
        ELSE Zeros(fat.sector_size))

\* Fat12::get_fat_entry on a disk that holds c: res is "Ok", the FatError or the
\* DiskErr, entry the value returned.
get_fat_entry(c, index, fat_index) ==
    IF index >= count_of_clusters \/ fat_index >= number_of_fats
    THEN [res |-> "IndexOutOfRange", entry |-> NoEntry]
    ELSE IF read_sectors_result(index, fat_index) /= "Ok"
    THEN [res |-> read_sectors_result(index, fat_index), entry |-> NoEntry]
    ELSE LET sectors == read_sectors(c, index, fat_index)
             entry == u16_from_le_bytes(sectors[fat_entry_offset(index) + 1],
                                        sectors[fat_entry_offset(index) + 2])
         IN  from_fat12(IF index % 2 = 1 THEN entry \div 16 ELSE bitand(entry, 4095))

fat_get_fat_entry(index, fat_index) ==
    LET r == get_fat_entry(content, index, fat_index)
    IN  /\ last = NoCall
        /\ fat.some /\ fat.kind = "Fat12"
        /\ last' = FatCall("get_fat_entry", r.res, index, fat_index, NoEntry, 0, r.entry)
        /\ UNCHANGED <<r_borrows, w_borrows, content, views, thrVars, extVars>>

\* The two bytes of the entry after set_fat_entry has put value into sectors.
store_entry(sectors, index, v) ==
    LET o == fat_entry_offset(index)
        value == IF index % 2 = 1 THEN shl4(v) ELSE bitand(v, 4095)
        b0 == IF index % 2 = 1 THEN bitand(sectors[o + 1], 15) ELSE 0
        b1 == IF index % 2 = 1 THEN 0 ELSE bitand(sectors[o + 2], 240)
        entry == u16_to_le_bytes(value)
    IN  [sectors EXCEPT ![o + 1] = bitor(b0, entry[1]), ![o + 2] = bitor(b1, entry[2])]

\* A set_fat_entry that writes its sector whatever to_fat12 answers.
set_fat_entry_writes_unencoded(index, fat_index, value) ==
    /\ index < count_of_clusters /\ fat_index < number_of_fats
    /\ read_sectors_result(index, fat_index) = "Ok"

\* Fat12::set_fat_entry: the sector written is the first half of sectors; after
\* it the code reads the sector after sector_number again.
set_fat_entry_reaches_write(index, fat_index, value) ==
    /\ index < count_of_clusters /\ fat_index < number_of_fats
    /\ read_sectors_result(index, fat_index) = "Ok"
    /\ to_fat12(value).res = "Ok"

set_fat_entry_result(index, fat_index, value) ==
    LET sn == sector_number(index, fat_index)
    IN  IF index >= count_of_clusters \/ fat_index >= number_of_fats THEN "IndexOutOfRange"
        ELSE IF read_sectors_result(index, fat_index) /= "Ok"
        THEN read_sectors_result(index, fat_index)
        ELSE IF to_fat12(value).res /= "Ok" THEN to_fat12(value).res
        ELSE IF wrapper_write_result(sn, fat.sector_size) /= "Ok"
        THEN wrapper_write_result(sn, fat.sector_size)
        ELSE IF reads_next_sector(index)
        THEN wrapper_read_result(sn + 1, fat.sector_size)
        ELSE "Ok"

fat_set_fat_entry(index, fat_index, value) ==
    LET sectors == store_entry(read_sectors(content, index, fat_index), index,
                               as_u16(to_fat12(value).value))
        written == /\ set_fat_entry_reaches_write(index, fat_index, value)
                   /\ wrapper_write_result(sector_number(index, fat_index),
                                           fat.sector_size) = "Ok"
    IN  /\ last = NoCall
        /\ fat.some /\ fat.kind = "Fat12"
        /\ Len(fat_writes) < MaxSets
        /\ fat_writes' = Append(fat_writes,
                                [index |-> index, fat_index |-> fat_index, value |-> value,
                                 res |-> set_fat_entry_result(index, fat_index, value)])
        /\ content' = IF written
                      THEN memdisk_write(sector_number(index, fat_index),
                                         SubSeq(sectors, 1, fat.sector_size))
                      ELSE content
        /\ last' = FatCall("set_fat_entry", set_fat_entry_result(index, fat_index, value),
                           index, fat_index, value, 0, NoEntry)
        /\ UNCHANGED <<r_borrows, w_borrows, views, thrVars, wrapper, mbr, fat>>

\* FatEntry::from_fat12 and FatEntry::to_fat12 called on their own.
fat_from_fat12(value) ==
    /\ last = NoCall
    /\ last' = FatCall("from_fat12", from_fat12(value).res, 0, 0, NoEntry, value,
                       from_fat12(value).entry)
    /\ UNCHANGED <<r_borrows, w_borrows, content, views, thrVars, extVars>>

fat_to_fat12(self) ==
    /\ last = NoCall
    /\ last' = FatCall("to_fat12", to_fat12(self).res, 0, 0, self, to_fat12(self).value,
                       NoEntry)
    /\ UNCHANGED <<r_borrows, w_borrows, content, views, thrVars, extVars>>

\* ------------------------------------------------ clusters and the root directory
\* The record of a call that asks the registry for a view: index is the
\* argument of get_cluster and get_file, clusters the list handed to
\* create_frangemented_subdisk.
FsCall(op, res, parts, permissions, slot, index, clusters) ==
    [NoCall EXCEPT !.op = op, !.res = res, !.parts = parts, !.permissions = permissions,
                   !.slot = slot,
                   !.r_before = r_borrows, !.w_before = w_borrows,
                   !.content_before = content,
                   !.ext = [index |-> index, clusters |-> clusters]]

sectors_per_cluster == fat.bpb.sectors_per_cluster
root_entries_count == fat.bpb.root_entries_count
div_ceil(n, d) == (n + d - 1) \div d
\* BiosParameterBlock::data_start_sector
data_start_sector ==
    reserved_sectors_count + number_of_fats * fat_size
        + div_ceil(root_entries_count * 32, fat.sector_size)

\* What a call that went through DiskWrapper::subdisk leaves behind.
issue_subdisk(op, rejected, start, end, permissions, index) ==
    LET res == IF rejected /= "Ok" THEN rejected
               ELSE subdisk_result(r_borrows, w_borrows, start, end, permissions, 2)
        reg == /\ rejected = "Ok"
               /\ subdisk_registers(r_borrows, w_borrows, start, end, permissions, 2)
    IN  /\ last = NoCall
        /\ fat.some
        /\ res = "Ok" => Live /= Slots
        /\ r_borrows' = IF reg /\ permissions.read
                        THEN Append(r_borrows, <<start, end>>) ELSE r_borrows
        /\ w_borrows' = IF reg /\ permissions.write
                        THEN Append(w_borrows, <<start, end>>) ELSE w_borrows
        /\ views' = IF res = "Ok"
                    THEN [views EXCEPT ![FreeSlot] = SubDisk(start, end, permissions)]
                    ELSE views
        /\ last' = FsCall(op, res, IF rejected = "Ok" THEN <<(<<start, end>>)>> ELSE <<>>,
                          permissions, IF res = "Ok" THEN FreeSlot ELSE 0, index, <<>>)
        /\ UNCHANGED <<content, thrVars, extVars>>

\* FatFS::get_cluster, the same code in Fat12 and Fat16.
fat_get_cluster(index, permissions) ==
    LET first_sector == data_start_sector + (index - 2) * sectors_per_cluster
    IN  issue_subdisk("get_cluster",
                      IF index >= count_of_clusters \/ index < 2
                      THEN "IndexOutOfRange" ELSE "Ok",
                      first_sector * fat.sector_size,
                      (first_sector + sectors_per_cluster) * fat.sector_size,
                      permissions, index)

\* FatFS::get_root_dir: Fat12 adds fat_size and number_of_fats, Fat16
\* multiplies them.
root_dir_start ==
    IF fat.kind = "Fat12"
    THEN (reserved_sectors_count + fat_size + number_of_fats) * fat.sector_size
    ELSE (reserved_sectors_count + fat_size * number_of_fats) * fat.sector_size
root_dir_end ==
    root_dir_start + div_ceil(root_entries_count * 32, fat.sector_size) * fat.sector_size

fat_get_root_dir(permissions) ==
    issue_subdisk("get_root_dir", "Ok", root_dir_start, root_dir_end, permissions, 0)

\* The loop over clusters without the search for a second occurrence.
RECURSIVE check_clusters_once(_, _)
check_clusters_once(clusters, i) ==
    IF i > Len(clusters) THEN "Ok"
    ELSE IF clusters[i] >= count_of_clusters \/ clusters[i] < 2 THEN "IndexOutOfRange"
    ELSE check_clusters_once(clusters, i + 1)

\* create_frangemented_subdisk: the loop over clusters from position i, the
\* error of the first cluster that fails a test.
RECURSIVE check_clusters(_, _)
check_clusters(clusters, i) ==
    IF i > Len(clusters) THEN "Ok"
    ELSE IF clusters[i] >= count_of_clusters \/ clusters[i] < 2 THEN "IndexOutOfRange"
    ELSE IF \E j \in (i + 1)..Len(clusters) : clusters[i] = clusters[j] THEN "InfiniteLoop"
    ELSE check_clusters(clusters, i + 1)

\* The first sector of a cluster in create_frangemented_subdisk: Fat16 counts
\* the sectors of the root directory, Fat12 does not.
cluster_start_with_root(c) ==
    reserved_sectors_count + fat_size * number_of_fats
        + (root_entries_count * 32) \div fat.sector_size
        + (c - 2) * sectors_per_cluster
cluster_start(c) ==
    IF fat.kind = "Fat12"
    THEN reserved_sectors_count + fat_size * number_of_fats + (c - 2) * sectors_per_cluster
    ELSE cluster_start_with_root(c)

cluster_parts(clusters) ==
    [i \in 1..Len(clusters) |->
        <<cluster_start(clusters[i]) * fat.sector_size,
          (cluster_start(clusters[i]) + sectors_per_cluster) * fat.sector_size>>]

\* What a call that ends in create_frangemented_subdisk leaves behind; rejected
\* is the error found before it, "Ok" when there is none.
issue_fragmented(op, rejected, clusters, permissions, index) ==
    LET checked == IF rejected /= "Ok" THEN rejected ELSE check_clusters(clusters, 1)
        parts == cluster_parts(clusters)
        res == IF checked /= "Ok" THEN checked
               ELSE fragmented_result(r_borrows, w_borrows, parts, permissions, 2)
        reg == /\ checked = "Ok"
               /\ fragmented_registers(r_borrows, w_borrows, parts, permissions, 2)
    IN  /\ last = NoCall
        /\ fat.some
        /\ res = "Ok" => Live /= Slots
        /\ r_borrows' = IF reg /\ permissions.read
                        THEN extend_from_slice(r_borrows, parts) ELSE r_borrows
        /\ w_borrows' = IF reg /\ permissions.write
                        THEN extend_from_slice(w_borrows, parts) ELSE w_borrows
        /\ views' = IF res = "Ok"
                    THEN [views EXCEPT ![FreeSlot] = FragmentedSubDisk(parts, permissions)]
                    ELSE views
        /\ last' = FsCall(op, res, IF checked = "Ok" THEN parts ELSE <<>>, permissions,
                          IF res = "Ok" THEN FreeSlot ELSE 0, index, clusters)
        /\ UNCHANGED <<content, thrVars, extVars>>

fat_create_frangemented_subdisk(clusters, permissions) ==
    issue_fragmented("create_frangemented_subdisk", "Ok", clusters, permissions, 0)

\* The loop of FatFS::get_file from the entry of the last cluster pushed. The
\* loop has no exit on a Free or Bad entry, and none when the chain comes back
\* to a cluster it holds: the FAT does not change under it, so it runs for ever
\* ("Diverges").
RECURSIVE follow_chain(_, _)
follow_chain(clusters, current_entry) ==
    IF is_eof(current_entry) THEN [res |-> "Ok", clusters |-> clusters]
    ELSE IF current_entry.tag /= "Allocated" THEN [res |-> "Diverges", clusters |-> clusters]
    ELSE IF \E i \in 1..Len(clusters) : clusters[i] = current_entry.next
         THEN [res |-> "Diverges", clusters |-> clusters]
    ELSE LET r == get_fat_entry(content, current_entry.next, 0)
         IN  IF r.res /= "Ok"
             THEN [res |-> r.res, clusters |-> Append(clusters, current_entry.next)]
             ELSE follow_chain(Append(clusters, current_entry.next), r.entry)

get_file_clusters(first_cluster) ==
    LET r == get_fat_entry(content, first_cluster, 0)
    IN  IF r.res /= "Ok" THEN [res |-> r.res, clusters |-> <<first_cluster>>]
        ELSE follow_chain(<<first_cluster>>, r.entry)

fat_get_file(first_cluster, permissions) ==
    /\ fat.kind = "Fat12"
    /\ issue_fragmented("get_file", get_file_clusters(first_cluster).res,
                        get_file_clusters(first_cluster).clusters, permissions,
                        first_cluster)

\* ------------------------------------------------------------ specifications
\* The registry over a disk whose disk_infos always answers (MemDisk, DiskFile).
Next ==
    \/ \E rg \in Ranges, p \in Permissions : subdisk(rg[1], rg[2], p, 2)
    \/ \E parts \in PartLists, p \in Permissions : fragmented_subdisk(parts, p, 2)
    \/ \E slot \in Slots : drop(slot)
    \/ \E rg \in Ranges : query_r_borrowed(rg[1], rg[2])
    \/ \E rg \in Ranges : query_w_borrowed(rg[1], rg[2])
    \/ take_result

Spec == Init /\ [][Next]_vars

\* The registry over a disk whose disk_infos may fail, as the Disk trait allows.
FaultyRanges == {<<0, 2>>, <<1, DiskSize>>, <<DiskSize - 1, DiskSize + 1>>}
FaultyLists == UNION {[1..n -> FaultyRanges] : n \in 0..MaxParts}
NextFaulty ==
    \/ \E rg \in FaultyRanges, p \in Permissions, io \in InfosOutcomes :
          subdisk(rg[1], rg[2], p, io)
    \/ \E parts \in FaultyLists, p \in Permissions, io \in InfosOutcomes :
          fragmented_subdisk(parts, p, io)
    \/ \E slot \in Slots : drop(slot)
    \/ take_result

SpecFaulty == Init /\ [][NextFaulty]_vars

\* The registry used as a Disk itself, next to the issuance of subdisks.
Sectors == 0..DiskSize
Buffers == UNION {[1..n -> Bytes] : n \in 0..MaxBuf}
Blank(len) == [k \in 1..len |-> 0]
NextIO ==
    \/ \E rg \in Ranges, p \in Permissions : subdisk(rg[1], rg[2], p, 2)
    \/ \E slot \in Slots : drop(slot)
    \/ \E sector \in Sectors, len \in 0..MaxBuf : wrapper_read_sector(sector, Blank(len))
    \/ \E sector \in Sectors, buf \in Buffers : wrapper_write_sector(sector, buf)
    \/ take_result

SpecIO == Init /\ [][NextIO]_vars

\* The views used as disks, next to their issuance and destruction and to the
\* destruction of the registry.
ViewRanges == {<<0, DiskSize>>, <<1, DiskSize>>, <<0, 2>>, <<2, 1>>}
ViewLists ==
    {<<>>, <<(<<0, 2>>)>>, <<(<<1, DiskSize>>)>>, <<(<<2, DiskSize>>), (<<0, 2>>)>>}
\* The buffers written through a view: every length, filled with one byte value.
ViewBuffers == {[k \in 1..n |-> b] : n \in 0..MaxBuf, b \in Bytes}
NextView ==
    \/ wrapper /\ \E rg \in ViewRanges, p \in Permissions : subdisk(rg[1], rg[2], p, 2)
    \/ wrapper /\ \E parts \in ViewLists, p \in Permissions : fragmented_subdisk(parts, p, 2)
    \/ \E slot \in Slots : drop(slot)
    \/ \E slot \in Slots, sector \in Sectors, len \in 0..MaxBuf, oc \in BOOLEAN :
          view_read_sector(slot, sector, Blank(len), oc)
    \/ \E slot \in Slots, sector \in Sectors, buf \in ViewBuffers, oc \in BOOLEAN :
          view_write_sector(slot, sector, buf, oc)
    \/ \E slot \in Slots : view_disk_infos(slot)
    \/ drop_wrapper
    \/ take_result

SpecView == Init /\ [][NextView]_vars

\* ------------------------------------------------------ the MBR on a disk
\* Size in bytes of the disk that holds the table.
MbrDiskSize == 512
\* The sector size handed to new / read_from_disk when one is given.
MbrSectorSize == 64
\* Number of partitions the table found on a used disk describes.
MaxFound == 2

U32Max == <<Limb - 1, Limb - 1>>
\* The tables a used disk may hold: entries whose end passes 2^32 - 1 among them.
FoundEntries ==
    <<[MbrEntry_empty EXCEPT !.status = 128, !.partition_type = 6,
                             !.lba_first = W(1), !.sectors = U32Max],
      [MbrEntry_empty EXCEPT !.status = 128, !.partition_type = 12,
                             !.lba_first = W(3), !.sectors = W(2)]>>
FoundTable(n, signature) ==
    [bootstrap |-> Zeros(BootstrapLen),
     partitions |-> [i \in 1..4 |-> IF i <= n /\ i <= Len(FoundEntries)
                                     THEN FoundEntries[i] ELSE MbrEntry_empty],
     signature |-> signature]
\* The disks of the model: a blank one, and used ones with and without the
\* signature.
MbrDisks ==
    {Zeros(MbrDiskSize)}
        \cup {to_bytes(FoundTable(MaxFound, sg)) \o Zeros(MbrDiskSize - MbrLen) :
                  sg \in {Signature, Signature - 1}}

\* A blank disk, on which no GenericMbr is open yet.
InitMbr ==
    /\ r_borrows = <<>>
    /\ w_borrows = <<>>
    /\ content = Zeros(MbrDiskSize)
    /\ views = [v \in Slots |-> NoView]
    /\ last = NoCall
    /\ pc = [t \in Threads |-> "idle"]
    /\ treq = [t \in Threads |-> <<0, 0, no_access>>]
    /\ tres = [t \in Threads |-> "none"]
    /\ wrapper = FALSE
    /\ mbr = NoMbr
    /\ fat = NoFat
    /\ fat_writes = <<>>

\* The arguments of the calls.
SectorSizeOptions == {None, Some(MbrSectorSize)}
PartitionIndexes == 0..4
\* The entries create_partition is asked to fill: the first, the last, and one
\* past the table.
CreateIndexes == {0, 3, 4}
PartitionRequests ==
    {<<W(0), W(2), 6>>, <<W(2), W(1), 6>>, <<W(1), W(3), 12>>, <<W(3), W(2), 6>>,
     <<W(5), W(4), 6>>, <<<<Limb, 0>>, W(1), 6>>}
PartitionPermissions == {read_write}

NextMbr ==
    \/ \E ss \in SectorSizeOptions : mbr_new(ss)
    \/ \E ss \in SectorSizeOptions : mbr_read_from_disk(ss)
    \/ mbr_write
    \/ mbr_drop
    \/ \E i \in CreateIndexes, rq \in PartitionRequests, oc \in BOOLEAN :
          mbr_create_partition(i, rq[1], rq[2], rq[3], oc)
    \/ \E i \in PartitionIndexes : mbr_partition_infos(i)
    \/ \E i \in PartitionIndexes, p \in PartitionPermissions, oc \in BOOLEAN :
          mbr_get_partition(i, p, oc)
    \/ \E slot \in Slots : drop(slot)
    \/ take_result

\* The table made with GenericMbr::new on a blank disk.
SpecMbr == InitMbr /\ [][NextMbr]_vars

\* The table found on a disk that was in use.
InitMbrFound ==
    /\ r_borrows = <<>>
    /\ w_borrows = <<>>
    /\ content \in MbrDisks
    /\ views = [v \in Slots |-> NoView]
    /\ last = NoCall
    /\ pc = [t \in Threads |-> "idle"]
    /\ treq = [t \in Threads |-> <<0, 0, no_access>>]
    /\ tres = [t \in Threads |-> "none"]
    /\ wrapper = FALSE
    /\ mbr = NoMbr
    /\ fat = NoFat
    /\ fat_writes = <<>>

SpecMbrFound == InitMbrFound /\ [][NextMbr]_vars

\* The sectors of the disk that content holds in SpecFat, the reserved sectors
\* and the FATs; get_fat_entry and set_fat_entry address no sector behind them.
FatSectors == 5
\* The sector size of the volumes, the first one Fat12 tries.
FatSectorSize == 512

\* The volumes: one FAT of three sectors, and two FATs of two sectors.
FatVolumes ==
    {[some |-> TRUE, kind |-> "Fat12",
      bpb |-> [count_of_clusters |-> 684, number_of_fats |-> 1,
               reserved_sectors_count |-> 1, fat_size |-> 3,
               sectors_per_cluster |-> 1, root_entries_count |-> 16],
      sector_size |-> FatSectorSize],
     [some |-> TRUE, kind |-> "Fat12",
      bpb |-> [count_of_clusters |-> 600, number_of_fats |-> 2,
               reserved_sectors_count |-> 1, fat_size |-> 2,
               sectors_per_cluster |-> 1, root_entries_count |-> 16],
      sector_size |-> FatSectorSize]}

\* What the FATs hold before the calls: nothing, every bit set, and a pattern
\* in which the neighbours of a byte differ from it.
FatImages ==
    {[b \in 1..(FatSectors * FatSectorSize) |-> 0],
     [b \in 1..(FatSectors * FatSectorSize) |-> IF b <= FatSectorSize THEN 0 ELSE 255],
     [b \in 1..(FatSectors * FatSectorSize) |->
         IF b <= FatSectorSize THEN 0 ELSE (b * 37 + 11) % 256]}

\* A Fat12 that read_from_disk has opened on the disk.
InitFat ==
    /\ r_borrows = <<>>
    /\ w_borrows = <<>>
    /\ content \in FatImages
    /\ views = [v \in Slots |-> NoView]
    /\ last = NoCall
    /\ pc = [t \in Threads |-> "idle"]
    /\ treq = [t \in Threads |-> <<0, 0, no_access>>]
    /\ tres = [t \in Threads |-> "none"]
    /\ wrapper = TRUE
    /\ mbr = NoMbr
    /\ fat \in FatVolumes
    /\ fat_writes = <<>>

\* The arguments of the calls: the first entries, the entry that starts at the
\* last byte of the first FAT sector (341 + 170 = 511) and the one after it, the
\* entry that starts at the last byte of the second (682 + 341 = 1023) and the
\* one after it, and one past the clusters.
FatIndexes == {0, 1, 341, 342, 682, 683, 684}
FatCopies == {0, 1}
FatEntries == {Free, Allocated(291), Allocated(1110), EOF, Allocated(1)}
\* The set_fat_entry calls: every index and value on the first copy, and two
\* calls on the second.
FatSets ==
    {<<i, 0, e>> : i \in FatIndexes \ {0}, e \in FatEntries}
        \cup {<<1, 1, EOF>>, <<341, 1, Bad>>}

NextFat ==
    \/ \E i \in FatIndexes, f \in FatCopies : fat_get_fat_entry(i, f)
    \/ \E s \in FatSets : fat_set_fat_entry(s[1], s[2], s[3])
    \/ take_result

SpecFat == InitFat /\ [][NextFat]_vars

\* The codec on its own: every 12-bit value and the first one past them, every
\* entry with next up to one past 0xFFF.
CodecValues == 0..4096
CodecEntries == {Free, Bad, EOF} \cup {Allocated(n) : n \in 0..4097}

NextCodec ==
    \/ \E v \in CodecValues : fat_from_fat12(v)
    \/ \E e \in CodecEntries : fat_to_fat12(e)
    \/ take_result

SpecCodec == Init /\ [][NextCodec]_vars

\* The sectors of the disk in SpecChain: the boot sector, the FATs, the root
\* directory and the clusters.
ChainSectors == 10

\* Small volumes with their clusters on the disk: a Fat12 whose two FATs take
\* one sector each, a Fat12 with two FATs of two sectors and clusters of two
\* sectors, and a Fat16 laid out as the first.
ChainVolumes ==
    {[some |-> TRUE, kind |-> "Fat12",
      bpb |-> [count_of_clusters |-> 5, number_of_fats |-> 2,
               reserved_sectors_count |-> 1, fat_size |-> 1,
               sectors_per_cluster |-> 1, root_entries_count |-> 16],
      sector_size |-> FatSectorSize],
     [some |-> TRUE, kind |-> "Fat12",
      bpb |-> [count_of_clusters |-> 4, number_of_fats |-> 2,
               reserved_sectors_count |-> 1, fat_size |-> 2,
               sectors_per_cluster |-> 2, root_entries_count |-> 16],
      sector_size |-> FatSectorSize],
     [some |-> TRUE, kind |-> "Fat16",
      bpb |-> [count_of_clusters |-> 5, number_of_fats |-> 2,
               reserved_sectors_count |-> 1, fat_size |-> 1,
               sectors_per_cluster |-> 1, root_entries_count |-> 16],
      sector_size |-> FatSectorSize]}

\* A disk whose first FAT holds the six 12-bit entries e and zeros after them:
\* two entries are packed into three bytes.
ChainByte(e, b) ==
    LET k == b - FatSectorSize - 1
        lo == e[2 * (k \div 3) + 1]
        hi == e[2 * (k \div 3) + 2]
    IN  IF k < 0 \/ k >= 9 THEN 0
        ELSE IF k % 3 = 0 THEN lo % 256
        ELSE IF k % 3 = 1 THEN lo \div 256 + 16 * (hi % 16)
        ELSE hi \div 16

ChainImage(e) == [b \in 1..(ChainSectors * FatSectorSize) |-> ChainByte(e, b)]

\* The FATs found: 2 -> 3 -> 4 -> EOF; 2 -> 4 -> EOF with 3 bad; the cycle
\* 2 -> 3 -> 2 with 4 free; 2 -> 3 -> 5 with the reserved value 1 in 4; and an
\* empty FAT.
ChainImages ==
    {ChainImage(<<4088, 4095, 3, 4, 4095, 0>>),
     ChainImage(<<4088, 4095, 4, 4087, 4095, 0>>),
     ChainImage(<<4088, 4095, 3, 2, 0, 0>>),
     ChainImage(<<4088, 4095, 3, 5, 1, 0>>),
     ChainImage(<<0, 0, 0, 0, 0, 0>>)}

InitChain ==
    /\ r_borrows = <<>>
    /\ w_borrows = <<>>
    /\ content \in ChainImages
    /\ views = [v \in Slots |-> NoView]
    /\ last = NoCall
    /\ pc = [t \in Threads |-> "idle"]
    /\ treq = [t \in Threads |-> <<0, 0, no_access>>]
    /\ tres = [t \in Threads |-> "none"]
    /\ wrapper = TRUE
    /\ mbr = NoMbr
    /\ fat \in ChainVolumes
    /\ fat_writes = <<>>

ChainPermissions == {read_only, read_write}
ClusterIndexes == {1, 2, 3, 5}
FirstClusters == {2, 3, 4, 5}
ClusterLists == {<<>>, <<2>>, <<3, 2>>, <<2, 3, 2>>, <<2, 5>>, <<1>>, <<3, 3, 7>>}

\* The views of a volume whose FAT is left as it was found.
NextChain ==
    \/ \E i \in ClusterIndexes, p \in ChainPermissions : fat_get_cluster(i, p)
    \/ \E p \in ChainPermissions : fat_get_root_dir(p)
    \/ \E l \in ClusterLists, p \in ChainPermissions : fat_create_frangemented_subdisk(l, p)
    \/ \E c \in FirstClusters, p \in ChainPermissions : fat_get_file(c, p)
    \/ \E slot \in Slots : drop(slot)
    \/ take_result

SpecChain == InitChain /\ [][NextChain]_vars

\* A Fat12 whose FAT the caller writes: the first volume, on the empty FAT and
\* on the FAT that holds 2 -> 3 -> 4 -> EOF.
InitWritten ==
    /\ InitChain
    /\ fat.kind = "Fat12" /\ sectors_per_cluster = 1
    /\ content \in {ChainImage(<<0, 0, 0, 0, 0, 0>>), ChainImage(<<4088, 4095, 3, 4, 4095, 0>>)}

ChainSets ==
    {<<2, 0, Allocated(3)>>, <<3, 0, EOF>>, <<2, 0, EOF>>, <<5, 0, EOF>>, <<2, 2, EOF>>}
ChainGets == {<<2, 0>>, <<5, 0>>, <<2, 2>>}
WrittenLists == {<<2>>, <<2, 2>>, <<1>>}

NextWritten ==
    \/ \E s \in ChainSets : fat_set_fat_entry(s[1], s[2], s[3])
    \/ \E g \in ChainGets : fat_get_fat_entry(g[1], g[2])
    \/ \E c \in {2, 3} : fat_get_file(c, read_only)
    \/ \E i \in {1, 2} : fat_get_cluster(i, read_only)
    \/ \E l \in WrittenLists : fat_create_frangemented_subdisk(l, read_only)
    \/ \E slot \in Slots : drop(slot)
    \/ take_result

SpecWritten == InitWritten /\ [][NextWritten]_vars

\* ------------------------------------ DiskWrapper::subdisk, lock by lock
\* Two threads call subdisk on the same registry. Each mutex of the registry is
\* taken and released inside one statement of subdisk, so a thread's call is a
\* sequence of steps and the steps of the two threads interleave.
ConcRanges == {<<s, s + 2>> : s \in 0..(DiskSize - 1)}

Finish(t, res) ==
    /\ pc' = [pc EXCEPT ![t] = "done"]
    /\ tres' = [tres EXCEPT ![t] = res]

Goto(t, label) ==
    /\ pc' = [pc EXCEPT ![t] = label]
    /\ UNCHANGED tres

t_call(t, start, end, permissions) ==
    /\ pc[t] = "idle"
    /\ pc' = [pc EXCEPT ![t] = "is_w_borrowed"]
    /\ treq' = [treq EXCEPT ![t] = <<start, end, permissions>>]
    /\ UNCHANGED <<r_borrows, w_borrows, content, views, last, tres, extVars>>

\* self.is_w_borrowed(start, end): w_borrows locked for the scan
t_is_w_borrowed(t) ==
    /\ pc[t] = "is_w_borrowed"
    /\ IF is_w_borrowed(w_borrows, treq[t][1], treq[t][2])
       THEN Finish(t, "Busy") ELSE Goto(t, "is_r_borrowed")
    /\ UNCHANGED <<r_borrows, w_borrows, content, views, last, treq, extVars>>

\* self.is_r_borrowed(start, end) && permissions.write: r_borrows locked for the scan
t_is_r_borrowed(t) ==
    /\ pc[t] = "is_r_borrowed"
    /\ IF is_r_borrowed(r_borrows, treq[t][1], treq[t][2]) /\ treq[t][3].write
       THEN Finish(t, "Busy") ELSE Goto(t, "disk_size")
    /\ UNCHANGED <<r_borrows, w_borrows, content, views, last, treq, extVars>>

\* end > self.disk.lock().disk_infos()?.disk_size
t_disk_size(t) ==
    /\ pc[t] = "disk_size"
    /\ IF treq[t][2] > disk_size
       THEN Finish(t, "InvalidDiskSize") ELSE Goto(t, "push_r")
    /\ UNCHANGED <<r_borrows, w_borrows, content, views, last, treq, extVars>>

\* if permissions.read { self.r_borrows.lock().push((start, end)) }
t_push_r(t) ==
    /\ pc[t] = "push_r"
    /\ r_borrows' = IF treq[t][3].read
                    THEN Append(r_borrows, <<treq[t][1], treq[t][2]>>) ELSE r_borrows
    /\ Goto(t, "push_w")
    /\ UNCHANGED <<w_borrows, content, views, last, treq, extVars>>

\* if permissions.write { self.w_borrows.lock().push((start, end)) }
t_push_w(t) ==
    /\ pc[t] = "push_w"
    /\ w_borrows' = IF treq[t][3].write
                    THEN Append(w_borrows, <<treq[t][1], treq[t][2]>>) ELSE w_borrows
    /\ Goto(t, "return")
    /\ UNCHANGED <<r_borrows, content, views, last, treq, extVars>>

\* self.disk_infos()?.sector_size, self.weak_self.lock().clone(), Ok(SubDisk {..})
t_return(t) ==
    /\ pc[t] = "return"
    /\ Live /= Slots
    /\ views' = [views EXCEPT ![FreeSlot] = SubDisk(treq[t][1], treq[t][2], treq[t][3])]
    /\ Finish(t, "Ok")
    /\ UNCHANGED <<r_borrows, w_borrows, content, last, treq, extVars>>

NextConc ==
    \/ \E t \in Threads, rg \in ConcRanges, p \in Permissions : t_call(t, rg[1], rg[2], p)
    \/ \E t \in Threads : t_is_w_borrowed(t)
    \/ \E t \in Threads : t_is_r_borrowed(t)
    \/ \E t \in Threads : t_disk_size(t)
    \/ \E t \in Threads : t_push_r(t)
    \/ \E t \in Threads : t_push_w(t)
    \/ \E t \in Threads : t_return(t)

SpecConc == Init /\ [][NextConc]_vars

\* ------------------------------------------------- Fat12::new and Fat16::new
\* A request is (disk_size, root_dir_entries, number_of_fats, hidden_sectors,
\* sector_size, sectors_per_cluster) on a fresh read-write MemDisk that takes
\* any sector size; an absent option is None and hidden_sectors is a usize
\* held in two limbs.
is_power_of_two(n) == \E k \in 0..30 : n = 2 ^ k

next_power_of_two(n) == CHOOSE p \in {2 ^ k : k \in 0..30} :
                            p >= n /\ \A q \in {2 ^ k : k \in 0..30} : q >= n => p <= q

\* for i in [512, 1024, 2048, 4096] { if is_supported(i, size) { return i } } 0
default_sector_size(size) ==
    IF \E i \in {512, 1024, 2048, 4096} : i <= size
    THEN CHOOSE i \in {512, 1024, 2048, 4096} :
             i <= size /\ \A j \in {512, 1024, 2048, 4096} : j <= size => i <= j
    ELSE 0

\* The parameter test with the multiple test the other way round.
accepts_whole_root_sectors(sector_size, root_dir_entries, nfats, hidden_sectors) ==
    \/ sector_size < 512
    \/ ~is_power_of_two(sector_size)
    \/ sector_size > 65535
    \/ ~is_multiple_of(root_dir_entries * 32, sector_size)
    \/ nfats > 255
    \/ root_dir_entries > 65535
    \/ ~u32_fits(hidden_sectors)

\* The first test of new: the parameters.
rejects_parameters(sector_size, root_dir_entries, nfats, hidden_sectors) ==
    \/ sector_size < 512
    \/ ~is_power_of_two(sector_size)
    \/ sector_size > 65535
    \/ is_multiple_of(root_dir_entries * 32, sector_size)
    \/ nfats > 255
    \/ root_dir_entries > 65535
    \/ ~u32_fits(hidden_sectors)

ClusterLimit(kind) == IF kind = "Fat12" THEN 4085 ELSE 65525

\* sectors_per_cluster.map_or_else(|| (total - root - 1).div_ceil(T).next_power_of_two(), |v| v)
choose_sectors_per_cluster(kind, spc, total_sectors, root_dir_sectors) ==
    IF spc = None
    THEN next_power_of_two(div_ceil(total_sectors - root_dir_sectors - 1, ClusterLimit(kind)))
    ELSE spc.v

\* The second test of new: the cluster size and the number of sectors.
rejects_cluster_size(spc, total_sectors) ==
    \/ ~is_power_of_two(spc)
    \/ spc > 255
    \/ ~u32_fits(W(total_sectors))

\* Fat16::new only: the test on the final number of clusters.
rejects_cluster_count(kind, count) ==
    kind = "Fat16" /\ (count < 4085 \/ count > 65525)

\* A validity test that leaves the root directory out.
is_valid_but_root(b) ==
    /\ b.bytes_per_sector >= 512 /\ is_power_of_two(b.bytes_per_sector)
    /\ is_power_of_two(b.sectors_per_cluster) /\ b.sectors_per_cluster <= 128
    /\ \/ b.total_sectors_16 /= 0 /\ b.total_sectors_32 = 0
       \/ b.total_sectors_16 = 0 /\ b.total_sectors_32 >= Limb
    /\ b.signature = 43605

\* BiosParameterBlock::is_valid: the structural constraints of a BPB.
is_valid(b) ==
    /\ b.bytes_per_sector >= 512 /\ is_power_of_two(b.bytes_per_sector)
    /\ is_power_of_two(b.sectors_per_cluster) /\ b.sectors_per_cluster <= 128
    /\ (b.root_entries_count * 32) % b.bytes_per_sector = 0
    /\ \/ b.total_sectors_16 /= 0 /\ b.total_sectors_32 = 0
       \/ b.total_sectors_16 = 0 /\ b.total_sectors_32 >= Limb
    /\ b.signature = 43605

\* What a call of new comes to: the test it ended at, what it returned, the
\* final number of clusters, the number of write_sector calls it made and, once
\* the BPB is built, the volume the BPB describes.
NewOutcome(stage, res, count, written, volume) ==
    [stage |-> stage, res |-> res, count |-> count, written |-> written, volume |-> volume]

\* The layout of new once both tests have passed: the two passes over the
\* number of clusters, the BPB, and the sectors it zeroes before it writes the
\* boot sector. A subtraction below zero panics in a debug build and wraps in
\* a release build: outcome "Overflow".
new_layout(kind, sector_size, root_dir_entries, nfats, spc, total_sectors, root_dir_sectors) ==
    LET first_count == (total_sectors - root_dir_sectors - 1) \div spc
        fatsz == div_ceil(first_count + first_count \div 2, sector_size)
        count == (total_sectors - root_dir_sectors - fatsz * nfats - 1) \div spc
        reserved_sectors == total_sectors - count * spc - fatsz * nfats - root_dir_sectors
        bpb == [bytes_per_sector |-> sector_size % Limb,
                sectors_per_cluster |-> spc % 256,
                reserved_sectors_count |-> reserved_sectors % Limb,
                number_of_fats |-> nfats % 256,
                root_entries_count |-> root_dir_entries % Limb,
                total_sectors_16 |-> IF total_sectors < Limb THEN total_sectors ELSE 0,
                total_sectors_32 |-> IF total_sectors < Limb THEN 0 ELSE total_sectors,
                fat_size |-> fatsz % Limb,
                signature |-> 43605]
        volume == [some |-> TRUE, kind |-> kind,
                   bpb |-> [count_of_clusters |-> count,
                            number_of_fats |-> bpb.number_of_fats,
                            reserved_sectors_count |-> bpb.reserved_sectors_count,
                            fat_size |-> bpb.fat_size,
                            sectors_per_cluster |-> bpb.sectors_per_cluster,
                            root_entries_count |-> bpb.root_entries_count],
                   sector_size |-> sector_size]
    IN  IF total_sectors < root_dir_sectors + fatsz * nfats + 1
        THEN NewOutcome("layout", "Overflow", 0, 0, NoFat)
        ELSE IF rejects_cluster_count(kind, count)
        THEN NewOutcome("cluster_count", "None", count, 0, NoFat)
        ELSE IF ~is_valid(bpb)
        THEN NewOutcome("is_valid", "None", count, 0, volume)
        ELSE NewOutcome("created", "Some", count,
                        reserved_sectors + nfats * fatsz + root_dir_sectors + 1, volume)

\* Fat12::new and Fat16::new.
new(kind, size, root_dir_entries, nfats, hidden_sectors, sector_size_opt, spc_opt) ==
    LET sector_size == IF sector_size_opt = None THEN default_sector_size(size)
                       ELSE sector_size_opt.v
        root_dir_sectors == (root_dir_entries * 32) \div sector_size
        total_sectors == size \div sector_size
        spc == choose_sectors_per_cluster(kind, spc_opt, total_sectors, root_dir_sectors)
    IN  IF rejects_parameters(sector_size, root_dir_entries, nfats, hidden_sectors)
        THEN NewOutcome("parameters", "None", 0, 0, NoFat)
        ELSE IF total_sectors < root_dir_sectors + 1
        THEN NewOutcome("layout", "Overflow", 0, 0, NoFat)
        ELSE IF rejects_cluster_size(spc, total_sectors)
        THEN NewOutcome("cluster_size", "None", 0, 0, NoFat)
        ELSE new_layout(kind, sector_size, root_dir_entries, nfats, spc, total_sectors,
                        root_dir_sectors)

NewCall(kind, request, outcome) ==
    [NoCall EXCEPT !.op = "new", !.res = outcome.res,
                   !.ext = [kind |-> kind, request |-> request, outcome |-> outcome]]

fat_new(kind, request) ==
    /\ last = NoCall
    /\ LET outcome == new(kind, request[1], request[2], request[3], request[4], request[5],
                          request[6])
       IN  /\ last' = NewCall(kind, request, outcome)
           /\ fat' = IF outcome.res = "Some" THEN outcome.volume ELSE fat
    /\ UNCHANGED <<r_borrows, w_borrows, content, views, thrVars, wrapper, mbr, fat_writes>>

\* Requests to new: disks of one sector, of five sectors, of 2 MiB, and of the
\* sizes at which one sector per cluster gives 4084, 4085, 4086 and 65524,
\* 65525, 65526 clusters with 17 root entries and two FATs.
NewDiskSizes == {512, 2560, 2097152, 2105344, 2105856, 2106368,
                 33747968, 33748480, 33748992}
NewRootEntries == {0, 16, 17, 65553}
NewFats == {2, 256}
NewHidden == {W(0), <<Limb, 0>>}
NewSectorSizes == {None, Some(256), Some(512), Some(768), Some(1024), Some(65536)}
NewClusterSizes == {None, Some(1), Some(2), Some(3), Some(256)}
NewRequests ==
    {<<d, r, n, h, s, c>> : d \in NewDiskSizes, r \in NewRootEntries, n \in NewFats,
                            h \in NewHidden, s \in NewSectorSizes, c \in NewClusterSizes}

NextNew ==
    \/ \E kind \in {"Fat12", "Fat16"}, request \in NewRequests : fat_new(kind, request)
    \/ take_result

SpecNew == Init /\ [][NextNew]_vars

\* --------------------------------------------------------------------- Fat16
\* FatEntry::from_fat16 and to_fat16: Free is 0, Allocated 0x0002..=0xFFF6, Bad
\* 0xFFF7, EOF 0xFFFF; 0x0001 and 0xFFF8..=0xFFFE are reserved.
from_fat16(value) ==
    IF value > 65535 THEN [res |-> "InvalidValueForFATX", entry |-> NoEntry]
    ELSE IF value = 0 THEN [res |-> "Ok", entry |-> Free]
    ELSE IF 2 <= value /\ value <= 65526 THEN [res |-> "Ok", entry |-> Allocated(value)]
    ELSE IF value = 65527 THEN [res |-> "Ok", entry |-> Bad]
    ELSE IF value = 65535 THEN [res |-> "Ok", entry |-> EOF]
    ELSE [res |-> "ReservedValue", entry |-> NoEntry]

to_fat16(self) ==
    IF self.tag = "Free" THEN [res |-> "Ok", value |-> 0]
    ELSE IF self.tag = "Allocated"
         THEN IF 2 <= self.next /\ self.next <= 65526
              THEN [res |-> "Ok", value |-> self.next]
              ELSE [res |-> "InvalidValueForFATX", value |-> 0]
    ELSE IF self.tag = "Bad" THEN [res |-> "Ok", value |-> 65527]
    ELSE [res |-> "Ok", value |-> 65535]

\* let sector_number = reserved_sectors_count + (index * 2 / sector_size)
\*     + fat_index * fat_size
sector_number16(index, fat_index) ==
    reserved_sectors_count + (index * 2) \div fat.sector_size + fat_index * fat_size
fat_entry_offset16(index) == (index * 2) % fat.sector_size

\* Fat16::get_fat_entry on a disk that holds c.
get_fat_entry16(c, index, fat_index) ==
    LET sn == sector_number16(index, fat_index)
        sector == sector_bytes(c, sn, fat.sector_size)
    IN  IF index >= count_of_clusters \/ fat_index >= number_of_fats
        THEN [res |-> "IndexOutOfRange", entry |-> NoEntry]
        ELSE IF wrapper_read_result(sn, fat.sector_size) /= "Ok"
        THEN [res |-> wrapper_read_result(sn, fat.sector_size), entry |-> NoEntry]
        ELSE from_fat16(u16_from_le_bytes(sector[fat_entry_offset16(index) + 1],
                                          sector[fat_entry_offset16(index) + 2]))

fat16_get_fat_entry(index, fat_index) ==
    LET r == get_fat_entry16(content, index, fat_index)
    IN  /\ last = NoCall
        /\ fat.some /\ fat.kind = "Fat16"
        /\ last' = FatCall("get_fat_entry", r.res, index, fat_index, NoEntry, 0, r.entry)
        /\ UNCHANGED <<r_borrows, w_borrows, content, views, thrVars, extVars>>

\* sector[fat_entry_offset] |= entry[0]; sector[fat_entry_offset + 1] |= entry[1]
store_entry16(sector, index, v) ==
    LET o == fat_entry_offset16(index)
        entry == u16_to_le_bytes(v)
    IN  [sector EXCEPT ![o + 1] = bitor(sector[o + 1], entry[1]),
                       ![o + 2] = bitor(sector[o + 2], entry[2])]

set_fat_entry16_result(index, fat_index, value) ==
    LET sn == sector_number16(index, fat_index)
    IN  IF index >= count_of_clusters \/ fat_index >= number_of_fats THEN "IndexOutOfRange"
        ELSE IF wrapper_read_result(sn, fat.sector_size) /= "Ok"
        THEN wrapper_read_result(sn, fat.sector_size)
        ELSE IF to_fat16(value).res /= "Ok" THEN to_fat16(value).res
        ELSE wrapper_write_result(sn, fat.sector_size)

\* Fat16::set_fat_entry.
fat16_set_fat_entry(index, fat_index, value) ==
    LET sn == sector_number16(index, fat_index)
        res == set_fat_entry16_result(index, fat_index, value)
    IN  /\ last = NoCall
        /\ fat.some /\ fat.kind = "Fat16"
        /\ Len(fat_writes) < MaxSets
        /\ fat_writes' = Append(fat_writes,
                                [index |-> index, fat_index |-> fat_index, value |-> value,
                                 res |-> res])
        /\ content' = IF res = "Ok"
                      THEN memdisk_write(sn, store_entry16(sector_bytes(content, sn,
                                                                        fat.sector_size),
                                                           index, to_fat16(value).value))
                      ELSE content
        /\ last' = FatCall("set_fat_entry", res, index, fat_index, value, 0, NoEntry)
        /\ UNCHANGED <<r_borrows, w_borrows, views, thrVars, wrapper, mbr, fat>>

\* A disk whose first FAT holds the six 16-bit entries e, low byte first.
Image16(e) ==
    [b \in 1..(ChainSectors * FatSectorSize) |->
        LET k == b - FatSectorSize - 1
        IN  IF k < 0 \/ k >= 12 THEN 0
            ELSE IF k % 2 = 0 THEN e[k \div 2 + 1] % 256
            ELSE e[k \div 2 + 1] \div 256]

\* A Fat16 volume of 5 clusters with two FATs of one sector, found with an
\* empty FAT or with the chain 2 -> 3 -> EOF and a bad cluster 4.
InitFat16 ==
    /\ r_borrows = <<>>
    /\ w_borrows = <<>>
    /\ views = [v \in Slots |-> NoView]
    /\ last = NoCall
    /\ pc = [t \in Threads |-> "idle"]
    /\ treq = [t \in Threads |-> <<0, 0, no_access>>]
    /\ tres = [t \in Threads |-> "none"]
    /\ wrapper = TRUE
    /\ mbr = NoMbr
    /\ fat \in {v \in ChainVolumes : v.kind = "Fat16"}
    /\ fat_writes = <<>>
    /\ content \in {Image16(<<0, 0, 0, 0, 0, 0>>),
                    Image16(<<65528, 65535, 3, 65535, 65527, 0>>)}

Entries16 == {Free, Allocated(258), Allocated(1), EOF}

NextFat16 ==
    \/ \E i \in {2, 3}, k \in {0, 1}, e \in Entries16 : fat16_set_fat_entry(i, k, e)
    \/ \E i \in {2, 5}, k \in {0, 2} : fat16_get_fat_entry(i, k)
    \/ take_result

SpecFat16 == InitFat16 /\ [][NextFat16]_vars

\* --------------------------------------------------- FatFS::get_dir, ls_dir
\* A Directory is given by its path from the root: rev_path() reversed, <<>>
\* for Directory::Root. Every view these two functions create is a temporary
\* that is dropped before they return or while they unwind.

\* DirEntryRaw::first_cluster of the 32-byte slot that starts at position o of
\* sector (positions from 0).
first_cluster(sector, o) ==
    u16_from_le_bytes(sector[o + 21], sector[o + 22]) * Limb
        + u16_from_le_bytes(sector[o + 27], sector[o + 28])

\* read_sector on DiskWrapper::new(view): the new registry has no loan, the
\* view runs its checks and hands the request to the disk.
dir_read_result(view, sector, overflow_checks) ==
    LET chk == io_check(view, view.permissions.read, sector, fat.sector_size,
                        overflow_checks)
    IN  IF chk /= "Forward" THEN chk
        ELSE memdisk_result(memdisk_permissions.read,
                            io_sector(view, sector, fat.sector_size), fat.sector_size)

dir_read(view, sector) ==
    memdisk_read(io_sector(view, sector, fat.sector_size), fat.sector_size)

\* The loop of get_dir over the path: dir is the view of the directory reached
\* so far, whose loans are still registered while get_file issues the next one.
RECURSIVE get_dir_walk(_, _, _, _)
get_dir_walk(dir, path, permissions, overflow_checks) ==
    IF path = <<>> THEN [res |-> "Ok", dir |-> dir]
    ELSE LET offset == Head(path) * 32
             sector_index == offset \div fat.sector_size
             offset_in_sector == offset % fat.sector_size
             read == dir_read_result(dir, sector_index, overflow_checks)
             chain == get_file_clusters(first_cluster(dir_read(dir, sector_index),
                                                      offset_in_sector))
             checked == IF chain.res /= "Ok" THEN chain.res
                        ELSE check_clusters(chain.clusters, 1)
             rb == IF dir.permissions.read THEN r_borrows \o dir.parts ELSE r_borrows
             wb == IF dir.permissions.write THEN w_borrows \o dir.parts ELSE w_borrows
             issued == fragmented_result(rb, wb, cluster_parts(chain.clusters),
                                         permissions, 2)
         IN  IF read /= "Ok" THEN [res |-> read, dir |-> dir]
             ELSE IF checked /= "Ok" THEN [res |-> checked, dir |-> dir]
             ELSE IF issued /= "Ok" THEN [res |-> issued, dir |-> dir]
             ELSE get_dir_walk(FragmentedSubDisk(cluster_parts(chain.clusters), permissions),
                               Tail(path), permissions, overflow_checks)

\* FatFS::get_dir.
get_dir(path, permissions, overflow_checks) ==
    LET root == subdisk_result(r_borrows, w_borrows, root_dir_start, root_dir_end,
                               read_only, 2)
    IN  IF root /= "Ok" THEN [res |-> root, dir |-> NoView]
        ELSE get_dir_walk(SubDisk(root_dir_start, root_dir_end, read_only), path,
                          permissions, overflow_checks)

\* The sectors ls_dir reads: for i in 0..(disk_size / sector_size - 1), the
\* error of the first read that fails.
RECURSIVE ls_dir_reads(_, _, _, _)
ls_dir_reads(dir, i, n, overflow_checks) ==
    IF i >= n THEN "Ok"
    ELSE IF dir_read_result(dir, i, overflow_checks) /= "Ok"
         THEN dir_read_result(dir, i, overflow_checks)
    ELSE ls_dir_reads(dir, i + 1, n, overflow_checks)

\* FatFS::ls_dir: after the loop over the sectors the function ends in todo!(),
\* which panics. A directory of less than one sector makes the bound of the
\* loop underflow: a panic with overflow checks, without them a loop from
\* sector 0 on that ends at the first read the view refuses.
ls_dir_of(d, overflow_checks) ==
    LET sectors == view_size(d.dir.parts) \div fat.sector_size
        reads == IF sectors = 0
                 THEN IF overflow_checks THEN "Panic"
                      ELSE ls_dir_reads(d.dir, 0, 1, overflow_checks)
                 ELSE ls_dir_reads(d.dir, 0, sectors - 1, overflow_checks)
    IN  IF d.res /= "Ok" THEN [res |-> d.res, dir |-> d.dir]
        ELSE IF reads /= "Ok" THEN [res |-> reads, dir |-> d.dir]
        ELSE [res |-> "Panic", dir |-> d.dir]

\* let dir = self.get_dir(path, Permissions::read_only())?; then the loop and
\* todo!().
ls_dir(path, overflow_checks) ==
    ls_dir_of(get_dir(path, read_only, overflow_checks), overflow_checks)

ls_dir_call(path, r) == FsCall("ls_dir", r.res, r.dir.parts, read_only, 0, 0, path)

fat_ls_dir(path, overflow_checks) ==
    /\ last = NoCall
    /\ fat.some
    /\ path /= <<>> => fat.kind = "Fat12"
    /\ last' = ls_dir_call(path, ls_dir(path, overflow_checks))
    /\ UNCHANGED <<r_borrows, w_borrows, content, views, thrVars, extVars>>

\* Disks with a FAT and directory entries: in sectors 3 and 4, where the root
\* directory of the volumes is or is looked for, the slots 0, 1 and 2 name the
\* first clusters 2, 3 and 4, and the other slots are free.
DirImage(e) ==
    [b \in 1..(ChainSectors * FatSectorSize) |->
        IF /\ (b - 1) \div FatSectorSize \in {3, 4}
           /\ (b - 1) % 32 = 26
           /\ ((b - 1) % FatSectorSize) \div 32 < 3
        THEN ((b - 1) % FatSectorSize) \div 32 + 2
        ELSE ChainByte(e, b)]

InitDir ==
    /\ r_borrows = <<>>
    /\ w_borrows = <<>>
    /\ views = [v \in Slots |-> NoView]
    /\ last = NoCall
    /\ pc = [t \in Threads |-> "idle"]
    /\ treq = [t \in Threads |-> <<0, 0, no_access>>]
    /\ tres = [t \in Threads |-> "none"]
    /\ wrapper = TRUE
    /\ mbr = NoMbr
    /\ fat \in ChainVolumes
    /\ fat_writes = <<>>
    /\ content \in {DirImage(<<4088, 4095, 3, 4, 4095, 0>>),
                    DirImage(<<4088, 4095, 3, 2, 0, 0>>),
                    DirImage(<<0, 0, 0, 0, 0, 0>>)}

DirPaths == {<<>>, <<0>>, <<1>>, <<2>>, <<3>>, <<16>>, <<0, 0>>}

NextDir ==
    \/ \E i \in {2, 3}, p \in ChainPermissions : fat_get_cluster(i, p)
    \/ \E p \in ChainPermissions : fat_get_root_dir(p)
    \/ \E c \in {2, 3}, p \in ChainPermissions : fat_get_file(c, p)
    \/ \E path \in DirPaths, oc \in BOOLEAN : fat_ls_dir(path, oc)
    \/ \E slot \in Slots : drop(slot)
    \/ take_result

SpecDir == InitDir /\ [][NextDir]_vars

\* ----------------------------------------------- SectorSize::minimal_ge alone
\* minimal_ge called on its own, on every expression over values up to MaxSize:
\* lists in any order and with repetitions, ranges that overlap, touch or are
\* empty (lo >= hi).
call_minimal_ge(self, sector_size) ==
    /\ last = NoCall
    /\ last' = [NoCall EXCEPT !.op = "minimal_ge",
                              !.res = IF minimal_ge(self, sector_size).some THEN "Some"
                                      ELSE "None",
                              !.ext = [self |-> self, sector_size |-> sector_size,
                                       out |-> minimal_ge(self, sector_size)]]
    /\ UNCHANGED <<r_borrows, w_borrows, content, views, thrVars, extVars>>

SizeLists == UNION {[1..n -> 0..MaxSize] : n \in 0..MaxList}
SizeRanges == UNION {[1..n -> (0..MaxSize) \X (0..MaxSize)] : n \in 0..MaxList}
SectorSizes ==
    {Any} \cup {AllOf(l) : l \in SizeLists} \cup {AnyExcept(l) : l \in SizeLists}
          \cup {InRanges(rs) : rs \in SizeRanges} \cup {AnyExceptRanges(rs) : rs \in SizeRanges}

NextMin ==
    \/ \E self \in SectorSizes, sector_size \in 0..(MaxSize + 1) :
          call_minimal_ge(self, sector_size)
    \/ take_result

SpecMin == Init /\ [][NextMin]_vars

\* ------------------------------------------------------------- DirEntryRaw
\* impl From<[u8; 32]> for DirEntryRaw: value is the slot, positions from 1.
dir_entry_from_bytes(value) ==
    [short_name |-> SubSeq(value, 1, 11),
     attributes |-> value[12],
     reserved |-> value[13],
     creation_time_cents |-> value[14],
     creation_time |-> u16_from_le_bytes(value[15], value[16]),
     creation_date |-> u16_from_le_bytes(value[17], value[18]),
     last_access_date |-> u16_from_le_bytes(value[19], value[20]),
     first_cluster_high |-> u16_from_le_bytes(value[21], value[22]),
     write_time |-> u16_from_le_bytes(value[23], value[24]),
     write_date |-> u16_from_le_bytes(value[25], value[26]),
     first_cluster_low |-> u16_from_le_bytes(value[27], value[28]),
     file_size |-> from_le_bytes(SubSeq(value, 29, 32))]

\* impl From<DirEntryRaw> for [u8; 32]: output starts as [0; 32] and the
\* fields up to first_cluster_low are copied in; nothing is copied to
\* output[28..32].
dir_entry_into_bytes(val) ==
    val.short_name \o <<val.attributes, val.reserved, val.creation_time_cents>>
        \o u16_to_le_bytes(val.creation_time)
        \o u16_to_le_bytes(val.creation_date)
        \o u16_to_le_bytes(val.last_access_date)
        \o u16_to_le_bytes(val.first_cluster_high)
        \o u16_to_le_bytes(val.write_time)
        \o u16_to_le_bytes(val.write_date)
        \o u16_to_le_bytes(val.first_cluster_low)
        \o <<0, 0, 0, 0>>

\* [u8; 32]::from(DirEntryRaw::from(b)) for a slot b.
slot_round_trip(b) ==
    /\ last = NoCall
    /\ last' = [NoCall EXCEPT !.op = "slot_round_trip", !.res = "Ok",
                              !.ext = [slot |-> b, entry |-> dir_entry_from_bytes(b),
                                       back |-> dir_entry_into_bytes(dir_entry_from_bytes(b))]]
    /\ UNCHANGED <<r_borrows, w_borrows, content, views, thrVars, extVars>>

\* DirEntryRaw::from(<[u8; 32]>::from(e)) for an entry e.
entry_round_trip(e) ==
    /\ last = NoCall
    /\ last' = [NoCall EXCEPT !.op = "entry_round_trip", !.res = "Ok",
                              !.ext = [entry |-> e, slot |-> dir_entry_into_bytes(e),
                                       back |-> dir_entry_from_bytes(dir_entry_into_bytes(e))]]
    /\ UNCHANGED <<r_borrows, w_borrows, content, views, thrVars, extVars>>

\* The entry named "A" followed by ten spaces (or free, or deleted), with the
\* given attributes, creation time and date, first cluster and size; the
\* other fields are 0.
RawEntry(name0, attributes, time, high, low, size) ==
    [short_name |-> <<name0>> \o [k \in 1..10 |-> 32],
     attributes |-> attributes,
     reserved |-> 0,
     creation_time_cents |-> 0,
     creation_time |-> time,
     creation_date |-> time,
     last_access_date |-> 0,
     first_cluster_high |-> high,
     write_time |-> 0,
     write_date |-> time,
     first_cluster_low |-> low,
     file_size |-> size]

RawEntries ==
    {RawEntry(n, a, t, h, l, s) :
        n \in {0, 65, 229}, a \in {0, 16}, t \in {0, 43605}, h \in {0, 1}, l \in {2, 770},
        s \in {W(0), W(1), W(512), <<1, 0>>, <<65535, 65535>>}}

\* The slots: the same fields laid out by hand, size in bytes 28..32.
RawSlots ==
    {e.short_name \o <<e.attributes, 0, 0>>
         \o u16_to_le_bytes(e.creation_time) \o u16_to_le_bytes(e.creation_date) \o <<0, 0>>
         \o u16_to_le_bytes(e.first_cluster_high) \o <<0, 0>>
         \o u16_to_le_bytes(e.write_date) \o u16_to_le_bytes(e.first_cluster_low)
         \o <<e.file_size[2] % 256, e.file_size[2] \div 256,
              e.file_size[1] % 256, e.file_size[1] \div 256>> : e \in RawEntries}

NextEntry ==
    \/ \E b \in RawSlots : slot_round_trip(b)
    \/ \E e \in RawEntries : entry_round_trip(e)
    \/ take_result

SpecEntry == Init /\ [][NextEntry]_vars

\* ===================================================================== claims
\* Two half-open ranges share a byte.
Overlaps(i, start, end) == i[1] < end /\ start < i[2]
\* Byte b lies in the half-open range rg.
Covers(rg, b) == rg[1] <= b /\ b < rg[2]
\* Some loan registered in the set overlaps [start, end).
Loaned(borrows, start, end) == \E k \in 1..Len(borrows) : Overlaps(borrows[k], start, end)
\* Every interval of the set holds at least one byte.
NonEmpty(borrows) == \A k \in 1..Len(borrows) : borrows[k][1] < borrows[k][2]
\* A non-empty range inside the backing disk.
Proper(rg) == rg[1] < rg[2] /\ rg[2] <= DiskSize
\* The views that were alive when the last issuing call started.
AliveBefore == {v \in Live : v /= last.slot}
Issuing == last.op \in {"subdisk", "fragmented_subdisk"}
Refusal == IF last.op = "subdisk" THEN "Busy" ELSE "SpaceAlreadyInUse"

WriteHolders(b) ==
    {v \in Live : /\ views[v].permissions.write
                  /\ \E k \in 1..Len(views[v].parts) : Covers(views[v].parts[k], b)}
Holders(b) ==
    {v \in Live : /\ views[v].permissions.read \/ views[v].permissions.write
                  /\ \E k \in 1..Len(views[v].parts) : Covers(views[v].parts[k], b)}

\* C1: aliasing invariant of DiskWrapper. Whatever subdisk, fragmented_subdisk
\* and drop calls have been made, every byte of the disk is either covered by no
\* write loan, or by the write loan of exactly one live view and by no loan of
\* any other live view.
C1_AliasingInvariant ==
    \A b \in 0..(DiskSize - 1) :
        \/ WriteHolders(b) = {}
        \/ Cardinality(WriteHolders(b)) = 1 /\ Holders(b) = WriteHolders(b)

\* C2: atomic check-then-update. When two threads call subdisk concurrently on
\* overlapping ranges inside the disk, both asking for read or write access and
\* at least one of them for write access, then under every interleaving exactly
\* one of the two calls returns a SubDisk and the other fails with Busy.
C2_ExactlyOneWins ==
    (/\ pc[1] = "done" /\ pc[2] = "done"
     /\ Overlaps(treq[1], treq[2][1], treq[2][2])
     /\ treq[1][2] <= DiskSize /\ treq[2][2] <= DiskSize
     /\ treq[1][3].write \/ treq[2][3].write
     /\ treq[1][3] /= no_access /\ treq[2][3] /= no_access)
    => \/ tres[1] = "Ok" /\ tres[2] = "Busy"
       \/ tres[1] = "Busy" /\ tres[2] = "Ok"

\* C3: borrow cleanup. After any sequence of subdisk / fragmented_subdisk calls,
\* successful or failed, and of view drops, a drop always finds the intervals
\* of its view (it never panics), and once no view is alive both loan sets are
\* empty.
C3_BorrowCleanup ==
    /\ last.op = "drop" => last.res = "Ok"
    /\ Live = {} => r_borrows = <<>> /\ w_borrows = <<>>

\* C4: write exclusivity and release. While a SubDisk with write permission on
\* a range [a,b) is alive, every subdisk or fragmented_subdisk request for read
\* or write access to ranges inside the disk of which one overlaps [a,b) is
\* refused (Busy, resp. SpaceAlreadyInUse); a request for ranges inside the disk
\* that overlap no loan and not each other succeeds.
C4_WriteExclusive ==
    /\ (/\ Issuing
        /\ last.permissions /= no_access
        /\ \A k \in 1..Len(last.parts) : Proper(last.parts[k])
        /\ \E v \in AliveBefore :
              /\ views[v].kind = "SubDisk"
              /\ views[v].permissions.write
              /\ Proper(views[v].parts[1])
              /\ \E k \in 1..Len(last.parts) :
                    Overlaps(views[v].parts[1], last.parts[k][1], last.parts[k][2]))
       => last.res = Refusal
    /\ (/\ Issuing
        /\ \A k \in 1..Len(last.parts) :
              /\ Proper(last.parts[k])
              /\ ~Loaned(last.r_before, last.parts[k][1], last.parts[k][2])
              /\ ~Loaned(last.w_before, last.parts[k][1], last.parts[k][2])
              /\ \A j \in 1..Len(last.parts) :
                    j /= k => ~Overlaps(last.parts[j], last.parts[k][1], last.parts[k][2]))
       => last.res = "Ok"

\* C5: read sharing. A read-only subdisk request for a range inside the disk
\* that overlaps no write loan succeeds, however many read loans it overlaps;
\* while a read-only SubDisk is alive, a subdisk request with write permission
\* for a range inside the disk that overlaps it (contains it or is contained in
\* it included) fails with Busy; a write request overlapping no loan succeeds.
C5_ReadSharing ==
    /\ (/\ last.op = "subdisk" /\ last.permissions = read_only
        /\ Proper(last.parts[1])
        /\ ~Loaned(last.w_before, last.parts[1][1], last.parts[1][2]))
       => last.res = "Ok"
    /\ (/\ last.op = "subdisk" /\ last.permissions.write
        /\ Proper(last.parts[1])
        /\ \E v \in AliveBefore :
              /\ views[v].kind = "SubDisk"
              /\ views[v].permissions = read_only
              /\ Proper(views[v].parts[1])
              /\ Overlaps(views[v].parts[1], last.parts[1][1], last.parts[1][2]))
       => last.res = "Busy"
    /\ (/\ last.op = "subdisk" /\ last.permissions.write
        /\ Proper(last.parts[1])
        /\ ~Loaned(last.r_before, last.parts[1][1], last.parts[1][2])
        /\ ~Loaned(last.w_before, last.parts[1][1], last.parts[1][2]))
       => last.res = "Ok"

\* The aliasing rule of the specification for a request [start,end) with the
\* given permissions against the loan sets rb, wb.
Conflicts(rb, wb, start, end, permissions) ==
    \/ permissions.write /\ (Loaned(rb, start, end) \/ Loaned(wb, start, end))
    \/ permissions.read /\ Loaned(wb, start, end)

\* C6: subdisk(start, end, permissions) fails with Busy exactly when the
\* request has write permission and overlaps a read or write loan, or has read
\* permission and overlaps a write loan (stated for a non-empty request and
\* loan sets of non-empty intervals).
C6_BusyExactly ==
    (/\ last.op = "subdisk"
     /\ last.parts[1][1] < last.parts[1][2]
     /\ NonEmpty(last.r_before) /\ NonEmpty(last.w_before))
    => (last.res = "Busy"
        <=> Conflicts(last.r_before, last.w_before,
                      last.parts[1][1], last.parts[1][2], last.permissions))

\* C7: is_r_borrowed(start, end) (resp. is_w_borrowed) answers true exactly
\* when some interval of the read-loan (resp. write-loan) set overlaps the
\* half-open range [start,end) (stated for a non-empty range and loan sets of
\* non-empty intervals).
C7_BorrowedIffOverlap ==
    /\ (last.op = "is_r_borrowed" /\ NonEmpty(last.parts) /\ NonEmpty(r_borrows))
       => (last.res = "true" <=> Loaned(r_borrows, last.parts[1][1], last.parts[1][2]))
    /\ (last.op = "is_w_borrowed" /\ NonEmpty(last.parts) /\ NonEmpty(w_borrows))
       => (last.res = "true" <=> Loaned(w_borrows, last.parts[1][1], last.parts[1][2]))

\* C8: fragmented_subdisk commits atomically. A call that returns an error,
\* whatever the error, leaves r_borrows and w_borrows as they were; a call that
\* returns a FragmentedSubDisk has appended all its parts to the sets its
\* permissions name.
C8_FragmentedAtomic ==
    last.op = "fragmented_subdisk"
    => IF last.res = "Ok"
       THEN /\ r_borrows = IF last.permissions.read
                           THEN last.r_before \o last.parts ELSE last.r_before
            /\ w_borrows = IF last.permissions.write
                           THEN last.w_before \o last.parts ELSE last.w_before
       ELSE r_borrows = last.r_before /\ w_borrows = last.w_before

\* C9: fragmented_subdisk applies the aliasing rule of subdisk to each part. It
\* fails with SpaceAlreadyInUse when a part conflicts with a loan (and no part is
\* malformed), with InvalidDiskSize when a part ends past the disk (and no part
\* conflicts), and a read-only request for well-formed parts that overlap no
\* write loan succeeds (stated for non-empty parts and loan sets of non-empty
\* intervals).
C9_FragmentedAliasing ==
    LET parts == last.parts
        conflict == \E k \in 1..Len(parts) :
                        Conflicts(last.r_before, last.w_before,
                                  parts[k][1], parts[k][2], last.permissions)
        past_end == \E k \in 1..Len(parts) : parts[k][2] > DiskSize
        inverted == \E k \in 1..Len(parts) : parts[k][1] > parts[k][2]
    IN  (/\ last.op = "fragmented_subdisk"
         /\ NonEmpty(last.r_before) /\ NonEmpty(last.w_before)
         /\ \A k \in 1..Len(parts) : parts[k][1] /= parts[k][2])
        => /\ (conflict /\ ~past_end /\ ~inverted) => last.res = "SpaceAlreadyInUse"
           /\ (past_end /\ ~conflict) => last.res = "InvalidDiskSize"
           /\ (last.permissions = read_only /\ ~past_end /\ ~inverted /\ ~conflict)
              => last.res = "Ok"

\* C10: the registry used as a Disk. read_sector returns Busy when the bytes
\* [sector*len, sector*len+len) overlap a write loan, write_sector returns Busy
\* when they overlap a read or write loan, and no write_sector changes a byte
\* that a loan of a live view covers (stated for a non-empty buffer and loan
\* sets of non-empty intervals).
C10_DirectAccessBusy ==
    LET start == last.sector * Len(last.buf)
        end == start + Len(last.buf)
        plain == start < end /\ NonEmpty(r_borrows) /\ NonEmpty(w_borrows)
    IN  /\ (last.op = "read_sector" /\ plain /\ Loaned(w_borrows, start, end))
           => last.res = "Busy"
        /\ (last.op = "write_sector" /\ plain
            /\ (Loaned(r_borrows, start, end) \/ Loaned(w_borrows, start, end)))
           => last.res = "Busy"
        /\ (last.op = "write_sector" /\ plain)
           => \A b \in 0..(DiskSize - 1) :
                 Holders(b) /= {} => content[b + 1] = last.content_before[b + 1]

\* ------------------------------------------------------------ views as disks
ViewIo == last.op \in {"view_read_sector", "view_write_sector"}
\* The bytes [lo, lo + len) of a disk content, bytes numbered from 0.
Slice(c, lo, len) == [k \in 1..len |-> c[lo + k]]
\* The disk content differs from the one before the last call at most in [lo, hi).
ChangedOnlyIn(lo, hi) ==
    \A b \in 0..(Len(content) - 1) :
        (b < lo \/ b >= hi) => content[b + 1] = last.content_before[b + 1]

\* C11: views that outlive the registry. Once the DiskWrapper is destroyed,
\* read_sector, write_sector and disk_infos of every surviving view return
\* UnreachableDisk, hand no request to the disk and leave its bytes alone, and
\* dropping such a view does not panic and leaves both loan sets as they were.
C11_InertAfterDestruction ==
    ~wrapper =>
        /\ (ViewIo \/ last.op = "view_disk_infos")
           => /\ last.res = "UnreachableDisk"
              /\ last.fwd = <<>>
              /\ content = last.content_before
        /\ last.op = "drop"
           => /\ last.res = "Ok"
              /\ r_borrows = last.r_before /\ w_borrows = last.w_before

\* C12: SubDisk round trip. On a SubDisk over [a,b) with read and write
\* permission whose registry is alive, for every buffer length B >= 1 that the
\* view supports and that divides a, and every sector S with a + B*S < b:
\* write_sector(S, buf) succeeds and afterwards the disk, read at sector
\* (a + B*S)/B with length B, returns buf; read_sector(S) succeeds and returns
\* the bytes the disk holds there.
C12_SubDiskRoundTrip ==
    LET a == last.parts[1][1]
        b == last.parts[1][2]
        B == Len(last.buf)
        S == last.sector
    IN  (/\ ViewIo /\ wrapper
         /\ views[last.slot].kind = "SubDisk"
         /\ last.permissions = read_write
         /\ B >= 1 /\ a % B = 0 /\ a + B * S < b
         /\ is_supported(view_sector_size, B, b - a))
        => /\ last.res = "Ok"
           /\ memdisk_result(memdisk_permissions.read, (a + B * S) \div B, B) = "Ok"
           /\ memdisk_read((a + B * S) \div B, B) = last.buf

\* The number of B-sized sectors of the first n parts.
RECURSIVE SectorsOf(_, _, _)
SectorsOf(parts, n, B) ==
    IF n = 0 THEN 0
    ELSE (parts[n][2] - parts[n][1]) \div B + SectorsOf(parts, n - 1, B)
Aligned(parts, B) ==
    \A k \in 1..Len(parts) : parts[k][1] % B = 0 /\ (parts[k][2] - parts[k][1]) % B = 0
\* The fragment that holds sector S in the concatenation of the parts.
FragmentOf(parts, S, B) ==
    CHOOSE k \in 1..Len(parts) : SectorsOf(parts, k - 1, B) <= S /\ S < SectorsOf(parts, k, B)
\* The parent byte offset of sector S.
ParentOffset(parts, S, B) ==
    LET k == FragmentOf(parts, S, B)
    IN  parts[k][1] + (S - SectorsOf(parts, k - 1, B)) * B

\* C13: address translation of FragmentedSubDisk. For parts all aligned to the
\* buffer length B >= 1 and a sector S below the total sector count, a
\* read_sector / write_sector in a direction the view permits succeeds and
\* accesses exactly the parent bytes [o, o + B), o = start_k + (S - c_k) * B, k
\* the fragment holding S and c_k the number of sectors of the fragments
\* before it: the request handed to the disk is sector o / B with length B, a
\* read returns the bytes at o, a write stores its buffer at o and changes no
\* other byte.
C13_FragmentTranslation ==
    LET parts == last.parts
        B == Len(last.buf)
        S == last.sector
        o == ParentOffset(parts, S, B)
    IN  (/\ ViewIo /\ wrapper
         /\ views[last.slot].kind = "FragmentedSubDisk"
         /\ B >= 1 /\ Aligned(parts, B)
         /\ S < SectorsOf(parts, Len(parts), B)
         /\ IF last.op = "view_read_sector"
            THEN last.permissions.read ELSE last.permissions.write)
        => /\ last.res = "Ok"
           /\ last.fwd = <<o \div B, B>>
           /\ Slice(content, o, B) = last.buf
           /\ ChangedOnlyIn(o, o + B)

\* A write through a two-part FragmentedSubDisk has reached its second fragment.
C13_Witness ==
    /\ last.op = "view_write_sector" /\ last.res = "Ok"
    /\ views[last.slot].kind = "FragmentedSubDisk"
    /\ Len(last.parts) = 2
    /\ Aligned(last.parts, Len(last.buf))
    /\ last.sector < SectorsOf(last.parts, 2, Len(last.buf))
    /\ FragmentOf(last.parts, last.sector, Len(last.buf)) = 2
    /\ content /= last.content_before

\* ------------------------------------------------------------ partition table
\* The sector range of a table entry, and of a request, without wrap-around.
EntryEnd(e) == WAdd(e.lba_first, e.sectors)
HoldsPartition(e) == e.sectors /= W(0)
WOverlaps(s1, e1, s2, e2) == WLt(s1, e2) /\ WLt(s2, e1)
\* The entries of the table t that the range [start, end) overlaps.
Clashes(t, start, end) ==
    {i \in 1..4 : /\ HoldsPartition(t.raw.partitions[i])
                  /\ WOverlaps(t.raw.partitions[i].lba_first, EntryEnd(t.raw.partitions[i]),
                               start, end)}

\* C14: partition disjointness. In a table made with GenericMbr::new, after
\* any create_partition calls, the sector ranges of the entries that hold a
\* partition are pairwise disjoint, and a create_partition for a non-empty
\* range that overlaps the range of an existing entry (contains it included)
\* fails with SpaceAlreadyInUse.
C14_PartitionsDisjoint ==
    /\ mbr.some =>
          \A i, j \in 1..4 :
              (i /= j /\ HoldsPartition(mbr.raw.partitions[j]))
              => i \notin Clashes(mbr, mbr.raw.partitions[j].lba_first,
                                  EntryEnd(mbr.raw.partitions[j]))
    /\ (/\ last.op = "create_partition" /\ last.ext.index < 4
        /\ last.ext.size /= W(0)
        /\ Clashes(last.ext.before, last.ext.start,
                   WAdd(last.ext.start, last.ext.size)) /= {})
       => last.res = "SpaceAlreadyInUse"

\* The outcome the specification gives a create_partition call.
CreateOutcome(t, index, start, size) ==
    IF index >= 4 THEN "InvalidPartitionIndex"
    ELSE IF start = W(0) \/ Clashes(t, start, WAdd(start, size)) /= {}
         THEN "SpaceAlreadyInUse"
    ELSE IF WLt(W(Len(content) \div t.sector_size), WAdd(start, size))
         THEN "InvalidSectorIndex"
    ELSE IF ~u32_fits(start) \/ ~u32_fits(size) THEN "OutOfRangeValue"
    ELSE "Ok"

\* C15: outcomes of create_partition. A call with index >= 4 returns
\* InvalidPartitionIndex, else with start 0 or a range overlapping an entry
\* SpaceAlreadyInUse, else with start + size past disk_size / sector_size
\* InvalidSectorIndex, else with a start or size that does not fit u32
\* OutOfRangeValue; a call that returns an error leaves the GenericMbr as it
\* was; a successful call sets entry i to status 0x80, zeroed CHS fields and the
\* given LBA, size and type and changes nothing else.
C15_CreateOutcomes ==
    last.op = "create_partition" =>
        LET before == last.ext.before
            i == last.ext.index + 1
        IN  /\ last.ext.size /= W(0)
               => last.res = CreateOutcome(before, last.ext.index, last.ext.start,
                                           last.ext.size)
            /\ last.res /= "Ok" => mbr = before
            /\ last.res = "Ok" =>
                  /\ mbr.raw.partitions[i] =
                        [status |-> 128, chs_first |-> <<0, 0, 0>>,
                         partition_type |-> last.ext.partition_type,
                         chs_last |-> <<0, 0, 0>>, lba_first |-> last.ext.start,
                         sectors |-> last.ext.size]
                  /\ mbr = [before EXCEPT !.raw.partitions[i] = mbr.raw.partitions[i]]

\* What partition_infos reports of an entry.
InfosOf(e) == <<e.lba_first, e.sectors, e.partition_type>>

C17_InfosAbsent ==
    (/\ last.op = "partition_infos"
     /\ \/ last.ext.index >= 4
        \/ mbr.raw.partitions[last.ext.index + 1] = MbrEntry_empty)
    => last.res = "None"

\* C18: get_partition(i, permissions) returns InvalidPartitionIndex for
\* i >= 4; for i < 4 it does not panic, and the SubDisk it returns covers the
\* bytes [lba_first * sector_size, (lba_first + sectors) * sector_size) of
\* entry i, the sum taken without wrap-around.
C18_PartitionRange ==
    last.op = "get_partition" =>
        IF last.ext.index >= 4 THEN last.res = "InvalidPartitionIndex"
        ELSE LET e == mbr.raw.partitions[last.ext.index + 1]
             IN  /\ last.res /= "Panic"
                 /\ last.res = "Ok" =>
                       /\ W(views[last.slot].parts[1][1]) = WMul(e.lba_first, mbr.sector_size)
                       /\ W(views[last.slot].parts[1][2]) = WMul(EntryEnd(e), mbr.sector_size)

\* The entries FAT12 can hold.
Representable(e) ==
    \/ e \in {Free, Bad, EOF}
    \/ e.tag = "Allocated" /\ 2 <= e.next /\ e.next <= 4086

\* C19: decoding a 12-bit value gives Free for 0x000, Allocated{next = v} for v
\* in 0x002..=0xFF6, Bad for 0xFF7, EOF for 0xFFF and ReservedValue for 0x001
\* and 0xFF8..=0xFFE; encoding gives 0x000 for Free, next for an Allocated with
\* next in 0x002..=0xFF6, 0xFF7 for Bad, 0xFFF for EOF and InvalidValueForFATX
\* for an Allocated with next outside 0x002..=0xFF6; so decoding what encoding
\* a representable entry gave returns that entry.
C19_Fat12Codec ==
    /\ last.op = "from_fat12" /\ last.ext.raw <= 4095 =>
          LET v == last.ext.raw
          IN  IF v = 0 THEN last.res = "Ok" /\ last.ext.out = Free
              ELSE IF 2 <= v /\ v <= 4086
                   THEN last.res = "Ok" /\ last.ext.out = Allocated(v)
              ELSE IF v = 4087 THEN last.res = "Ok" /\ last.ext.out = Bad
              ELSE IF v = 4095 THEN last.res = "Ok" /\ last.ext.out = EOF
              ELSE last.res = "ReservedValue"
    /\ last.op = "to_fat12" =>
          LET e == last.ext.value
          IN  /\ e = Free => last.res = "Ok" /\ last.ext.raw = 0
              /\ e = Bad => last.res = "Ok" /\ last.ext.raw = 4087
              /\ e = EOF => last.res = "Ok" /\ last.ext.raw = 4095
              /\ e.tag = "Allocated" =>
                    IF Representable(e)
                    THEN last.res = "Ok" /\ last.ext.raw = e.next
                    ELSE last.res = "InvalidValueForFATX"
              /\ Representable(e) =>
                    /\ last.res = "Ok"
                    /\ from_fat12(last.ext.raw) = [res |-> "Ok", entry |-> e]


\* The entries next to entry index that the volume has.
Neighbours(index) == {m \in {index - 1, index + 1} : 0 <= m /\ m < count_of_clusters}

\* C20: for every cluster index N below count_of_clusters, every representable
\* entry E and every prior FAT content, set_fat_entry(N, 0, E) succeeds, a
\* get_fat_entry(N, 0) that follows returns E, and get_fat_entry(N - 1, 0) and
\* get_fat_entry(N + 1, 0) return what they returned before the write.
C20_SetGetRoundTrip ==
    ( /\ last.op = "set_fat_entry"
      /\ last.ext.fat_index = 0
      /\ last.ext.index < count_of_clusters
      /\ Representable(last.ext.value) ) =>
        /\ last.res = "Ok"
        /\ get_fat_entry(content, last.ext.index, 0) = [res |-> "Ok", entry |-> last.ext.value]
        /\ \A m \in Neighbours(last.ext.index) :
              get_fat_entry(content, m, 0) = get_fat_entry(last.content_before, m, 0)

\* The half bytes of the disk, numbered from 0: 2 * k is the low half of byte
\* k, 2 * k + 1 its high half. An entry of FAT copy 0 is three of them, from
\* byte reserved_sectors_count * sector_size + index + index / 2 on: an even
\* entry has that byte and the low half of the next, an odd one the high half
\* of that byte and the next byte.
EntryHalves(index) ==
    LET b == reserved_sectors_count * fat.sector_size + index + index \div 2
    IN  IF index % 2 = 0 THEN {2 * b, 2 * b + 1, 2 * b + 2}
        ELSE {2 * b + 1, 2 * b + 2, 2 * b + 3}
HalfAt(c, h) == IF h % 2 = 0 THEN c[h \div 2 + 1] % 16 ELSE c[h \div 2 + 1] \div 16
\* The 12 bits the disk c holds for an entry.
EntryOnDisk(c, index) ==
    LET h == CHOOSE x \in EntryHalves(index) : \A y \in EntryHalves(index) : x <= y
    IN  HalfAt(c, h) + 16 * HalfAt(c, h + 1) + 256 * HalfAt(c, h + 2)
\* The entry starts at the last byte of a FAT sector.
Straddles(index) == (index + index \div 2) % fat.sector_size = fat.sector_size - 1
\* The half bytes of the sector an entry starts in and of the sector after it.
TwoSectors(index) ==
    LET s == reserved_sectors_count + (index + index \div 2) \div fat.sector_size
    IN  (2 * s * fat.sector_size) .. (2 * (s + 2) * fat.sector_size - 1)
SameOutside(halves, index, before) ==
    \A h \in TwoSectors(index) \ halves : HalfAt(content, h) = HalfAt(before, h)

\* C21: when entry C starts at the last byte of a FAT sector, set_fat_entry(C, 0,
\* Allocated{a}) followed by set_fat_entry(C + 1, 0, Allocated{b}) makes
\* get_fat_entry return Allocated{a} for C and Allocated{b} for C + 1, both
\* bytes of entry C are on the disk, and no byte of the two sectors outside the
\* entries C and C + 1 changes.
C21_SectorStraddle ==
    /\ ( /\ last.op = "set_fat_entry"
         /\ last.ext.fat_index = 0
         /\ Straddles(last.ext.index)
         /\ last.ext.index + 1 < count_of_clusters
         /\ Representable(last.ext.value) /\ last.ext.value.tag = "Allocated" ) =>
            /\ last.res = "Ok"
            /\ EntryOnDisk(content, last.ext.index) = last.ext.value.next
            /\ SameOutside(EntryHalves(last.ext.index), last.ext.index, last.content_before)
    /\ ( /\ last.op = "set_fat_entry"
         /\ Len(fat_writes) >= 2
         /\ LET first == fat_writes[Len(fat_writes) - 1]
                second == fat_writes[Len(fat_writes)]
            IN  /\ first.fat_index = 0 /\ second.fat_index = 0
                /\ Straddles(first.index)
                /\ second.index = first.index + 1
                /\ second.index < count_of_clusters
                /\ Representable(first.value) /\ first.value.tag = "Allocated"
                /\ Representable(second.value) /\ second.value.tag = "Allocated" ) =>
            LET first == fat_writes[Len(fat_writes) - 1]
                second == fat_writes[Len(fat_writes)]
            IN  /\ first.res = "Ok" /\ second.res = "Ok"
                /\ get_fat_entry(content, first.index, 0) = [res |-> "Ok", entry |-> first.value]
                /\ get_fat_entry(content, second.index, 0) = [res |-> "Ok", entry |-> second.value]
                /\ EntryOnDisk(content, first.index) = first.value.next
                /\ SameOutside(EntryHalves(first.index) \cup EntryHalves(second.index),
                               first.index, last.content_before)

\* A cluster of the data area, as the calls accept it.
ValidCluster(c) == 2 <= c /\ c < count_of_clusters
Reverse(seq) == [i \in 1..Len(seq) |-> seq[Len(seq) + 1 - i]]
\* The set_fat_entry calls w write the chain w[1].index -> ... -> EOF into FAT
\* copy 0, each cluster once.
WritesChain(w) ==
    /\ w /= <<>>
    /\ \A i \in 1..Len(w) :
          /\ w[i].fat_index = 0
          /\ ValidCluster(w[i].index)
          /\ w[i].value = IF i < Len(w) THEN Allocated(w[i + 1].index) ELSE EOF
    /\ \A i, j \in 1..Len(w) : i /= j => w[i].index /= w[j].index

\* C22: after an acyclic chain C1 -> ... -> Ck -> EOF of valid data clusters has
\* been written into FAT copy 0 with set_fat_entry (first cluster first, or
\* last cluster first), get_file(C1, permissions) on a registry without loans
\* returns a view of k * sectors_per_cluster * sector_size bytes.
C22_ChainReconstruction ==
    \A w \in {fat_writes, Reverse(fat_writes)} :
        ( /\ WritesChain(w)
          /\ last.op = "get_file"
          /\ last.ext.index = w[1].index
          /\ last.r_before = <<>> /\ last.w_before = <<>> ) =>
            /\ last.res = "Ok"
            /\ view_size(views[last.slot].parts)
                = Len(w) * sectors_per_cluster * fat.sector_size

\* The layout of the volume: the root directory follows the last FAT and the
\* clusters follow the root directory.
RootFirstSector == reserved_sectors_count + number_of_fats * fat_size
RootSectors == (root_entries_count * 32 + fat.sector_size - 1) \div fat.sector_size
DataStartSector == RootFirstSector + RootSectors
ClusterRange(c) ==
    <<(DataStartSector + (c - 2) * sectors_per_cluster) * fat.sector_size,
      (DataStartSector + (c - 1) * sectors_per_cluster) * fat.sector_size>>
RootRange == <<RootFirstSector * fat.sector_size, DataStartSector * fat.sector_size>>
Disjoint(a, b) == a[2] <= b[1] \/ b[2] <= a[1]

\* C23: in the view returned by create_frangemented_subdisk / get_file the i-th
\* fragment is the data-area byte range of the i-th cluster c, from sector
\* data_start_sector + (c - 2) * sectors_per_cluster to sector data_start_sector
\* + (c - 1) * sectors_per_cluster; it is the range get_cluster(c) covers, and it
\* does not overlap the root directory.
C23_ClusterRanges ==
    /\ last.op \in {"create_frangemented_subdisk", "get_file"} /\ last.res = "Ok" =>
          /\ Len(views[last.slot].parts) = Len(last.ext.clusters)
          /\ \A i \in 1..Len(last.ext.clusters) :
                /\ views[last.slot].parts[i] = ClusterRange(last.ext.clusters[i])
                /\ Disjoint(views[last.slot].parts[i], RootRange)
    /\ last.op = "get_cluster" /\ last.res = "Ok" =>
          views[last.slot].parts = <<ClusterRange(last.ext.index)>>

\* C24: get_file returns on every FAT content: with success when the chain ends
\* in EOF, and with an error (never by running for ever, never as if the chain
\* had ended) when the chain reaches a Free or Bad entry or comes back to a
\* cluster it has passed.
C24_ChainTerminates ==
    last.op = "get_file" =>
        /\ last.res /= "Diverges"
        /\ \A i \in 1..Len(last.ext.clusters) :
              LET e == get_fat_entry(last.content_before, last.ext.clusters[i], 0)
              IN  ( \/ e.res /= "Ok"
                    \/ e.entry \in {Free, Bad}
                    \/ \E j \in 1..i : e.entry = Allocated(last.ext.clusters[j]) )
                  => last.res /= "Ok"

FatRange(f) ==
    <<(reserved_sectors_count + f * fat_size) * fat.sector_size,
      (reserved_sectors_count + (f + 1) * fat_size) * fat.sector_size>>

\* C26: get_root_dir(permissions) returns a view that starts right after the
\* last FAT copy, at byte (reserved_sectors_count + number_of_fats * fat_size)
\* * sector_size, and spans ceil(root_entries_count * 32 / sector_size) sectors;
\* it overlaps no FAT copy and no data cluster, in Fat12 and in Fat16.
C26_RootDirRange ==
    last.op = "get_root_dir" /\ last.r_before = <<>> /\ last.w_before = <<>> =>
        /\ last.res = "Ok"
        /\ views[last.slot].parts = <<RootRange>>
        /\ \A f \in 0..(number_of_fats - 1) : Disjoint(views[last.slot].parts[1], FatRange(f))
        /\ \A c \in 2..(count_of_clusters - 1) :
              Disjoint(views[last.slot].parts[1], ClusterRange(c))

\* The request and the outcome of the last call of new.
NewKind == last.ext.kind
NewRequest == last.ext.request
NewResult == last.ext.outcome
NewSectorSize ==
    IF NewRequest[5] = None THEN default_sector_size(NewRequest[1]) ELSE NewRequest[5].v
NothingCreated == NewResult.res = "None" /\ NewResult.written = 0 /\ fat = NoFat

\* The parameters the specification has new refuse.
RefusedParameters ==
    \/ NewSectorSize < 512 \/ ~is_power_of_two(NewSectorSize) \/ NewSectorSize > 65535
    \/ (NewRequest[2] * 32) % NewSectorSize /= 0
    \/ NewRequest[3] > 255
    \/ NewRequest[2] > 65535
    \/ ~u32_fits(NewRequest[4])

\* C27: Fat12::new and Fat16::new refuse a request at the parameter test, and
\* write nothing, exactly when the sector size is not a power of two >= 512 or
\* exceeds 0xFFFF, root_dir_entries * 32 is not a multiple of the sector size,
\* number_of_fats > 0xFF, root_dir_entries > 0xFFFF or hidden_sectors >
\* 0xFFFFFFFF; a request whose root_dir_entries * 32 is a multiple of the
\* sector size (2 MiB, 16 entries, 2 FATs, 512) passes this test.
C27_ParameterValidation ==
    last.op = "new" =>
        /\ (NewResult.stage = "parameters") <=> RefusedParameters
        /\ NewResult.stage = "parameters" => NothingCreated

\* The last call of new computed its final number of clusters.
CountComputed == NewResult.stage \in {"cluster_count", "is_valid", "created"}

C31_NoPanic ==
    last.op \in {"read_sector", "write_sector", "view_read_sector", "view_write_sector"}
    => last.res /= "Panic"

\* The values from size upwards that the expression admits; none lies above
\* every value of the expression plus the length of its list.
Admitted(self, size) ==
    {v \in size..(MaxSize + MaxList + 2) : is_supported(self, v, v)}

\* C32: minimal_ge(size) returns the smallest v >= size that the expression
\* admits (is_supported(v, disk_size) for a disk of v bytes or more, and no
\* value of [size, v) is), and absent exactly when there is none, for lists in
\* any order and with repetitions and for ranges that overlap, touch or are
\* empty.
C32_MinimalGe ==
    last.op = "minimal_ge" =>
        LET adm == Admitted(last.ext.self, last.ext.sector_size)
        IN  IF adm = {} THEN last.ext.out = None
            ELSE /\ last.ext.out.some
                 /\ last.ext.out.v \in adm
                 /\ \A v \in adm : last.ext.out.v <= v

\* C33: ls_dir(directory) returns a list of directory entries (it walks from
\* the root to the directory, scans the slots of the final view in order,
\* skips long-name entries, collects the valid ones and stops at the first slot
\* whose short_name[0] is 0x00), and it returns normally, with a list or with
\* an error, for every directory and every disk content.
C33_LsDirReturns ==
    last.op = "ls_dir" => last.res \notin {"Panic", "Diverges"}

\* C34: subdisk registers all or nothing. A call that returns a SubDisk has
\* added one occurrence of (start, end) to r_borrows iff permissions.read and
\* one to w_borrows iff permissions.write, and nothing else; a call that
\* returns an error (Busy, InvalidDiskSize, or an error of the backing disk's
\* disk_infos) leaves both loan sets as they were.
C34_SubdiskAtomic ==
    last.op = "subdisk"
    => IF last.res = "Ok"
       THEN /\ r_borrows = IF last.permissions.read
                           THEN Append(last.r_before, last.parts[1]) ELSE last.r_before
            /\ w_borrows = IF last.permissions.write
                           THEN Append(last.w_before, last.parts[1]) ELSE last.w_before
            /\ content = last.content_before
       ELSE r_borrows = last.r_before /\ w_borrows = last.w_before

\* C35: index validation of FragmentedSubDisk. On a view with a non-empty
\* parts list aligned to the buffer length B, read_sector / write_sector with a
\* sector index at or beyond the number of B-sized sectors of the view returns
\* InvalidSectorIndex and hands nothing to the parent disk: it reads or writes
\* neither parent sector 0 nor any other byte.
C35_FragmentedIndex ==
    /\ last.op \in {"view_read_sector", "view_write_sector"}
    /\ views[last.slot].kind = "FragmentedSubDisk"
    /\ wrapper
    /\ IF last.op = "view_read_sector" THEN last.permissions.read ELSE last.permissions.write
    /\ last.parts /= <<>> /\ Len(last.buf) >= 1
    /\ Len(last.buf) <= view_size(last.parts)
    /\ Aligned(last.parts, Len(last.buf))
    /\ last.sector >= SectorsOf(last.parts, Len(last.parts), Len(last.buf))
    => /\ last.res = "InvalidSectorIndex"
       /\ last.fwd = <<>>
       /\ content = last.content_before

\* C37: confinement of SubDisk. A read_sector or write_sector that a SubDisk
\* over [start, end) forwards to its parent covers parent bytes of [start, end)
\* only, whatever the buffer length B and the sector index S: a request whose
\* last byte start + B*S + B - 1 lies at or beyond end is refused, not
\* forwarded.
C37_SubDiskConfined ==
    /\ last.op \in {"view_read_sector", "view_write_sector"}
    /\ views[last.slot].kind = "SubDisk"
    /\ last.fwd /= <<>>
    => /\ last.parts[1][1] <= last.fwd[1] * last.fwd[2]
       /\ last.fwd[1] * last.fwd[2] + last.fwd[2] <= last.parts[1][2]

\* An interval that is well formed on the backing disk.
WellFormed(iv) == iv[1] <= iv[2] /\ iv[2] <= disk_size

\* C38: loans are well formed. After any sequence of subdisk and
\* fragmented_subdisk calls every interval (s, e) of r_borrows and w_borrows
\* and every range of an issued view has s <= e <= backing disk size; a request
\* with start > end is refused, so that disk_infos of a view never computes
\* end - start with end < start.
C38_LoansWellFormed ==
    /\ \A k \in 1..Len(r_borrows) : WellFormed(r_borrows[k])
    /\ \A k \in 1..Len(w_borrows) : WellFormed(w_borrows[k])
    /\ \A v \in Slots : \A k \in 1..Len(views[v].parts) : WellFormed(views[v].parts[k])
    /\ last.op \in {"subdisk", "fragmented_subdisk"}
           /\ (\E k \in 1..Len(last.parts) : last.parts[k][1] > last.parts[k][2])
       => last.res /= "Ok"

\* The bytes a FAT of the volume needs for the entries of the clusters below
\* count_of_clusters, and the FAT sector that holds the last byte of entry n.
FatBytesNeeded(v) ==
    IF v.kind = "Fat12" THEN div_ceil(3 * v.bpb.count_of_clusters, 2)
    ELSE 2 * v.bpb.count_of_clusters
LastEntrySector(v, n) ==
    IF v.kind = "Fat12" THEN (n + n \div 2 + 1) \div v.sector_size
    ELSE (2 * n + 1) \div v.sector_size

Encodable16(e) ==
    e \in {Free, Bad, EOF} \/ (e.tag = "Allocated" /\ 2 <= e.next /\ e.next <= 65526)
\* Position in content (from 1) of the low byte of entry n of FAT copy k.
EntryPosition16(n, k) == (reserved_sectors_count + k * fat_size) * fat.sector_size + 2 * n + 1

\* C39: FAT16 set/get round trip under overwrite. For a valid cluster index N,
\* a FAT copy k and an encodable entry E, whatever the entry held before,
\* set_fat_entry(N, k, E) succeeds and get_fat_entry(N, k) then returns E: the
\* two bytes at offset 2N of FAT copy k are the little-endian value of E, and
\* every other byte of the disk is unchanged.
C39_Fat16RoundTrip ==
    /\ last.op = "set_fat_entry" /\ fat.kind = "Fat16"
    /\ last.ext.index < count_of_clusters /\ last.ext.fat_index < number_of_fats
    /\ Encodable16(last.ext.value)
    => LET p == EntryPosition16(last.ext.index, last.ext.fat_index)
       IN  /\ last.res = "Ok"
           /\ get_fat_entry16(content, last.ext.index, last.ext.fat_index)
                  = [res |-> "Ok", entry |-> last.ext.value]
           /\ <<content[p], content[p + 1]>> = u16_to_le_bytes(to_fat16(last.ext.value).value)
           /\ \A b \in 1..Len(content) : b \notin {p, p + 1} => content[b] = last.content_before[b]

\* C40: directory-entry codec round trip. Converting a 32-byte slot to a
\* DirEntryRaw and back yields the slot, and converting a DirEntryRaw to 32
\* bytes and back yields the entry: all thirteen fields survive, the 4-byte
\* little-endian file_size at bytes 28..32 included.
C40_DirEntryRoundTrip ==
    /\ last.op = "slot_round_trip" => last.ext.back = last.ext.slot
    /\ last.op = "entry_round_trip" => last.ext.back = last.ext.entry

====
